---- MODULE Spec2Model ----
(***************************************************************************)
(* Express ERP MCP server.                                                 *)
(*                                                                         *)
(* Three parts of the repository are modelled:                             *)
(*   - the stateful-HTTP adapter of src/src/index-streamable.ts: the       *)
(*     session registry `transports`, the /mcp POST, GET and DELETE        *)
(*     handlers and the graceful shutdown;                                 *)
(*   - the per-session event buffer of src/src/helpers/eventStore.ts;      *)
(*   - tools/list and tools/call on the stdio, SSE and streamable HTTP     *)
(*     servers: the dispatch by tool name, the three tool handlers, and    *)
(*     the outbound verification call of src/src/services/apiClient.ts     *)
(*     with its abort timer and its retry loop.                            *)
(*                                                                         *)
(* StreamableHTTPServerTransport comes from the MCP SDK.  Of its behaviour  *)
(* the model uses: handling an initialize request on a new transport draws *)
(* the session id with sessionIdGenerator and calls onsessioninitialized   *)
(* before anything is answered; an initialize request on an initialized    *)
(* transport is answered 400; a DELETE closes the transport; close() ends  *)
(* the open responses and calls onclose.  A handler runs without           *)
(* interruption up to its first await, so each action below is one such    *)
(* uninterrupted stretch.                                                  *)
(*                                                                         *)
(* Strings that the code only tests for presence and equality are          *)
(* integers here: a header or an event id is Undefined when absent, 0 when *)
(* it is the empty string (falsy in JavaScript, like undefined) and a      *)
(* positive number when it is a non-empty string.                          *)
(***************************************************************************)
EXTENDS Integers, Sequences, FiniteSets, TLC

\* ------------------------------------------------------------------ bounds
\* Size of the pool of values randomUUID() may return.
MaxSessions == 2
\* Number of HTTP requests the server receives in one behaviour.
MaxRequests == 3
\* Requests received in the specification that adds the event log to the adapter.
LogRequests == 2
\* Events appended per live session in that specification.
SrvQuota == 1
\* Events appended to the first session in the event-store specification.
MaxAppends == 102
\* Events appended to every other session in the event-store specification.
MaxOther == 1
\* Only the first FreeIdAppends appends of a session may pass an irregular
\* event id (the empty string, or id 1 again); every append may pass its own
\* sequence number as the id, and later appends always do.
FreeIdAppends == 2

\* Number of appends to the session of a replay that is consumed step by
\* step.
ReplayAppends == 3

\* Number of tools/call requests followed in the tool-call specification.
MaxCalls == 2
FailRequests == 2
KeyRequests == 2

\* Number of requests followed in the shutdown specification.
ShutRequests == 2

MaxConns == 3
MaxFrames == 2
MaxFrameId == 2
MaxStdio == 4
\* Number of HTTP requests in the specification that follows tools/list.
ListRequests == 2

\* ------------------------------------------------------- program constants
maxEventsPerSession == 100
\* verify_order: length limits of numer_zamowienia.
minLength == 1
maxLength == 50
\* executeWithRetry: default number of retries and first backoff delay (ms).
maxRetries == 2
delayMs == 1000
\* config.apiTimeout (ms), default of API_TIMEOUT.
apiTimeout == 5000
\* DatabaseClient.defaultQueryLimit, default of DEFAULT_QUERY_LIMIT.
defaultQueryLimit == 50

Undefined == 0 - 1

\* JavaScript truthiness of an optional string: undefined and "" are falsy.
Truthy(x) == x > 0

SessionIds == 1 .. MaxSessions
\* Values of the mcp-session-id header: absent, or some id (an empty header
\* value is falsy and takes the paths of an absent one).
Headers == {Undefined} \cup SessionIds
\* Request bodies: the handlers only ask whether the body is an initialize
\* request; "tools/call" stands for every other frame.  The specification
\* that follows tools/list adds that frame by name.
Bodies == {"initialize", "tools/call"}

VARIABLES
    transports,   \* the registry: Map<sessionId, transport>
    tr,           \* the StreamableHTTPServerTransport objects, by creating request
    reqs,         \* the requests received so far, in order of arrival
    phase,        \* "running", "shutting" (shutdown() is looping), "exited"
    events,       \* InMemoryEventStore.events: Map<sessionId, StoredEvent[]>
    appended,     \* history: every event appended to a session since its last clear
    replay,       \* the last getEventsSince / replayEventsAfter call and its result
    quota,        \* how many appends each session may receive in this behaviour
    maxReqs,      \* how many requests the server receives in this behaviour
    call,         \* the tools/call request being served, or the last one served
    served,       \* names of the tools/call requests completed before `call`
    listed,       \* the last tools/list answer
    mcpApiKey,    \* process.env.MCP_API_KEY as read at start-up
    sql,          \* the last execute_sql_limited query and what became of it
    conns,        \* SSE adapter: the GET /sse connections and their servers
    frames,       \* SSE adapter: the frames posted to POST /message
    stdio         \* stdio adapter: requests decoded, handlers running, responses written

srvVars == <<transports, tr, reqs, phase>>
storeVars == <<events, appended, replay>>
toolVars == <<call, served, listed>>
moreVars == <<mcpApiKey, sql, conns, frames, stdio>>
vars == <<transports, tr, reqs, phase, events, appended, replay, quota, maxReqs,
          call, served, listed, mcpApiKey, sql, conns, frames, stdio>>

\* ------------------------------------------------------------- Map helpers
MapSet(m, k, v) == [x \in DOMAIN m \cup {k} |-> IF x = k THEN v ELSE m[x]]
MapDelete(m, k) == [x \in DOMAIN m \ {k} |-> m[x]]
EmptyMap == [x \in {} |-> 0]

\* ------------------------------------------------------- adapter: helpers
NoTransport == [state |-> "none", sessionId |-> Undefined]

isInitializeRequest(body) == body = "initialize"

\* The if / else-if / else chain of app.post('/mcp').
PostBranchInitFirst(hdr, body, reg) ==
    IF isInitializeRequest(body) THEN "init"
    ELSE IF Truthy(hdr) /\ hdr \in DOMAIN reg THEN "reuse"
    ELSE "bad"

PostBranchNoHeaderCheck(hdr, body, reg) ==
    IF Truthy(hdr) /\ hdr \in DOMAIN reg THEN "reuse"
    ELSE IF isInitializeRequest(body) THEN "init"
    ELSE "bad"

PostBranch(hdr, body, reg) ==
    IF Truthy(hdr) /\ hdr \in DOMAIN reg THEN "reuse"
    ELSE IF ~Truthy(hdr) /\ isInitializeRequest(body) THEN "init"
    ELSE "bad"

\* The guard of app.get('/mcp') and app.delete('/mcp').
SessionMissing(hdr, reg) == ~Truthy(hdr) \/ hdr \notin DOMAIN reg

\* sessionIdGenerator: the values randomUUID() may return when the ids in
\* `used` have been returned before (a version-4 UUID does not repeat).
randomUUIDRepeating(used) == SessionIds

randomUUID(used) == SessionIds \ used

\* onsessioninitialized: transports.set(newSessionId, transport).
onsessioninitializedDropped(reg, newSessionId, t) == reg

onsessioninitializedUnderFirstKey(reg, newSessionId, t) == MapSet(reg, 1, t)

onsessioninitialized(reg, newSessionId, t) == MapSet(reg, newSessionId, t)

\* transport.onclose: delete the entry of the transport's session id.
oncloseKeeps(reg, sid) == reg

onclose(reg, sid) ==
    IF Truthy(sid) /\ sid \in DOMAIN reg THEN MapDelete(reg, sid) ELSE reg

IssuedIds == {tr[t].sessionId : t \in DOMAIN tr} \ {Undefined}

\* What the handler writes as the body of its own answers: res.status(..).json
\* of a JSON-RPC error object ({jsonrpc, error: {code, message}, id}) in
\* POST /mcp, res.status(..).send of a plain string in GET and DELETE /mcp;
\* every other answer is written by the transport.
replyBody(method, tid, status) ==
    IF (status = 400 /\ tid = 0) \/ status = 500
    THEN IF method = "POST" THEN "json-rpc error" ELSE "text"
    ELSE "transport"

\* A request to /mcp.
Req(method, hdr, body, pc, tid, status, answered) ==
    [method |-> method, path |-> "/mcp", hdr |-> hdr, body |-> body, pc |-> pc,
     tid |-> tid, status |-> status, answered |-> answered,
     reply |-> replyBody(method, tid, status)]

Serving == phase \in {"running", "shutting"}

\* ------------------------------------------------------------- tools/list
Adapters == {"stdio", "sse", "streamable"}
ToolNames == {"verify_order", "get_database_schema", "execute_sql_limited"}

\* The names a server answers to tools/list: the array of the
\* ListToolsRequestSchema handler (stdio, SSE), or the tools registered with
\* server.registerTool in createMcpServer (streamable HTTP).
toolsListOrderOnly(adapter) ==
    IF adapter = "sse" THEN <<"verify_order">>
    ELSE <<"verify_order", "get_database_schema", "execute_sql_limited">>

toolsList(adapter) ==
    IF adapter = "stdio"
    THEN <<"verify_order", "get_database_schema", "execute_sql_limited">>
    ELSE IF adapter = "sse"
    THEN <<"verify_order", "get_database_schema", "execute_sql_limited">>
    ELSE <<"verify_order", "get_database_schema", "execute_sql_limited">>

NoList == [adapter |-> "none", session |-> Undefined, tools |-> <<>>]
ListAnswer(adapter, sessionId) ==
    [adapter |-> adapter, session |-> sessionId, tools |-> toolsList(adapter)]

\* ------------------------------------------------------- adapter: actions
\* POST /mcp up to its first suspension.
PostMcp(hdr, body) ==
    /\ Serving
    /\ Len(reqs) < maxReqs
    /\ LET rid == Len(reqs) + 1
           branch == PostBranch(hdr, body, transports)
       IN  CASE branch = "reuse" ->
                  \* transport.handleRequest of the bound transport: an
                  \* initialize on an initialized transport is answered 400,
                  \* any other frame is dispatched to the server.
                  /\ reqs' = Append(reqs,
                        IF isInitializeRequest(body)
                        THEN Req("POST", hdr, body, "done", transports[hdr], 400, FALSE)
                        ELSE Req("POST", hdr, body, "pending", transports[hdr], 200, FALSE))
                  /\ UNCHANGED <<transports, tr>>
            [] branch = "init" ->
                  \* new transport, onclose set, server created, await connect
                  /\ tr' = [tr EXCEPT ![rid] = [state |-> "connected", sessionId |-> Undefined]]
                  /\ reqs' = Append(reqs, Req("POST", hdr, body, "connect", rid, 0, FALSE))
                  /\ UNCHANGED transports
            [] OTHER ->
                  /\ reqs' = Append(reqs, Req("POST", hdr, body, "done", 0, 400, FALSE))
                  /\ UNCHANGED <<transports, tr>>
    /\ UNCHANGED <<phase, events, appended, replay, quota, maxReqs, toolVars, moreVars>>

\* transport.handleRequest of a new transport, after connect: the transport
\* draws its session id, becomes initialized and calls onsessioninitialized;
\* the response headers (with the session id) are written.
HandleInitialize(rid) ==
    /\ Serving
    /\ rid \in 1 .. Len(reqs)
    /\ reqs[rid].pc = "connect"
    /\ \E newSessionId \in randomUUID(IssuedIds) :
          /\ tr' = [tr EXCEPT ![rid] = [state |-> "initialized", sessionId |-> newSessionId]]
          /\ transports' = onsessioninitialized(transports, newSessionId, rid)
          /\ reqs' = [reqs EXCEPT ![rid].pc = "pending", ![rid].status = 200]
    /\ UNCHANGED <<phase, events, appended, replay, quota, maxReqs, toolVars, moreVars>>

\* The server's answer to a dispatched frame reaches the transport: it is
\* written to the client unless the transport was closed meanwhile (close()
\* ends the response streams, the answer is lost).
Respond(rid) ==
    /\ Serving
    /\ rid \in 1 .. Len(reqs)
    /\ reqs[rid].pc = "pending"
    /\ reqs' = [reqs EXCEPT ![rid].pc = "done",
                            ![rid].answered = (tr[reqs[rid].tid].state # "closed")]
    /\ listed' = IF reqs[rid].body = "tools/list" /\ tr[reqs[rid].tid].state # "closed"
                 THEN ListAnswer("streamable", tr[reqs[rid].tid].sessionId)
                 ELSE listed
    /\ UNCHANGED <<transports, tr, phase, events, appended, replay, quota, maxReqs,
                   call, served, moreVars>>

\* GET /mcp: 400, or the bound transport opens the event stream.
GetMcp(hdr) ==
    /\ Serving
    /\ Len(reqs) < maxReqs
    /\ reqs' = Append(reqs,
          IF SessionMissing(hdr, transports)
          THEN Req("GET", hdr, "none", "done", 0, 400, FALSE)
          ELSE Req("GET", hdr, "none", "done", transports[hdr], 200, TRUE))
    /\ UNCHANGED <<transports, tr, phase, events, appended, replay, quota, maxReqs, toolVars, moreVars>>

\* transport.close(): the transport is closed and its onclose handler runs.
CloseTransport(t) ==
    /\ tr' = [tr EXCEPT ![t].state = "closed"]
    /\ transports' = onclose(transports, tr[t].sessionId)

\* DELETE /mcp: 400, or the bound transport closes itself and answers 200.
DeleteMcp(hdr) ==
    /\ Serving
    /\ Len(reqs) < maxReqs
    /\ IF SessionMissing(hdr, transports)
       THEN /\ reqs' = Append(reqs, Req("DELETE", hdr, "none", "done", 0, 400, FALSE))
            /\ UNCHANGED <<transports, tr>>
       ELSE /\ reqs' = Append(reqs, Req("DELETE", hdr, "none", "done", transports[hdr], 200, TRUE))
            /\ CloseTransport(transports[hdr])
    /\ UNCHANGED <<phase, events, appended, replay, quota, maxReqs, toolVars, moreVars>>

\* ------------------------------------------- adapter: the API key check
\* Keys: 1 is the value of MCP_API_KEY when it is set, 2 any other key.
KeyValues == {Undefined, 1, 2}
OpenPaths == {"/health", "/", "/test/verify-order"}

\* req.headers['x-api-key'] || req.headers['authorization']?.replace('Bearer ', '')
apiKeyOf(xApiKey, authorization) ==
    IF Truthy(xApiKey) THEN xApiKey ELSE authorization

\* authMiddleware: "next", or the status it answers with.
authMiddlewareMcpOnlyWhenWrong(path, xApiKey, authorization, MCP_API_KEY) ==
    LET apiKey == apiKeyOf(xApiKey, authorization)
    IN  IF path \in OpenPaths THEN "next"
        ELSE IF ~Truthy(MCP_API_KEY) THEN "next"
        ELSE IF ~Truthy(apiKey) THEN "next"
        ELSE IF apiKey # MCP_API_KEY THEN "403"
        ELSE "next"

authMiddleware(path, xApiKey, authorization, MCP_API_KEY) ==
    LET apiKey == apiKeyOf(xApiKey, authorization)
    IN  IF path \in OpenPaths THEN "next"
        ELSE IF ~Truthy(MCP_API_KEY) THEN "next"
        ELSE IF ~Truthy(apiKey) THEN "401"
        ELSE IF apiKey # MCP_API_KEY THEN "403"
        ELSE "next"

\* A request to /mcp passes through authMiddleware and, after next(), to
\* the route of its method.
McpRequest(method, xApiKey, authorization, hdr, body) ==
    LET verdict == authMiddleware("/mcp", xApiKey, authorization, mcpApiKey)
    IN  IF verdict = "next"
        THEN \/ method = "POST" /\ body # "none" /\ PostMcp(hdr, body)
             \/ method = "GET" /\ body = "none" /\ GetMcp(hdr)
             \/ method = "DELETE" /\ body = "none" /\ DeleteMcp(hdr)
        ELSE /\ Serving
             /\ Len(reqs) < maxReqs
             /\ (method = "POST") = (body # "none")
             /\ reqs' = Append(reqs,
                   [Req(method, hdr, body, "done", 0,
                        IF verdict = "401" THEN 401 ELSE 403, FALSE)
                       EXCEPT !.reply = "json-rpc error"])
             /\ UNCHANGED <<transports, tr, phase, events, appended, replay, quota,
                            maxReqs, toolVars, moreVars>>

\* GET /health, GET / and POST /test/verify-order: after next() the route
\* answers; /test/verify-order answers 400 when the body has no
\* numer_zamowienia string and otherwise the result of handleVerifyOrder.
OpenRoute(path, xApiKey, authorization, hasNumer) ==
    /\ Serving
    /\ Len(reqs) < maxReqs
    /\ path \in OpenPaths
    /\ authMiddleware(path, xApiKey, authorization, mcpApiKey) = "next"
    /\ hasNumer \/ path = "/test/verify-order"
    /\ LET method == IF path = "/test/verify-order" THEN "POST" ELSE "GET"
           status == IF hasNumer THEN 200 ELSE 400
       IN  reqs' = Append(reqs,
              [Req(method, Undefined, "none", "done", 0, status, TRUE)
                  EXCEPT !.path = path, !.reply = "json"])
    /\ UNCHANGED <<transports, tr, phase, events, appended, replay, quota, maxReqs,
                   toolVars, moreVars>>

\* mcpServer.connect or transport.handleRequest rejects in the initialize
\* branch of POST /mcp before the session is initialized: the catch of the
\* handler answers 500.
ConnectThrows(rid) ==
    /\ Serving
    /\ rid \in 1 .. Len(reqs)
    /\ reqs[rid].pc = "connect"
    /\ reqs' = [reqs EXCEPT ![rid] =
                  Req("POST", reqs[rid].hdr, reqs[rid].body, "done", rid, 500, FALSE)]
    /\ UNCHANGED <<transports, tr, phase, events, appended, replay, quota, maxReqs,
                   toolVars, moreVars>>

\* transport.handleRequest of a new transport rejects after the transport
\* drew its session id and called onsessioninitialized, and before any
\* header was written: the catch of the route answers 500; it does not touch
\* the registry and does not close the transport.
HandleInitializeThrows(rid) ==
    /\ Serving
    /\ rid \in 1 .. Len(reqs)
    /\ reqs[rid].pc = "connect"
    /\ \E newSessionId \in randomUUID(IssuedIds) :
          /\ tr' = [tr EXCEPT ![rid] = [state |-> "initialized", sessionId |-> newSessionId]]
          /\ transports' = onsessioninitialized(transports, newSessionId, rid)
    /\ reqs' = [reqs EXCEPT ![rid] =
                  Req("POST", reqs[rid].hdr, reqs[rid].body, "done", rid, 500, FALSE)]
    /\ UNCHANGED <<phase, events, appended, replay, quota, maxReqs, toolVars, moreVars>>

\* transport.handleRequest of the bound transport rejects.  POST and DELETE
\* catch it and answer 500; GET awaits it outside any try, and what becomes
\* of the rejected promise of the async route handler depends on the
\* Express version installed: Express 4 drops the promise, the rejection is
\* unhandled and the 'unhandledRejection' listener calls process.exit(1);
\* Express 5 passes the error to its default error handler, which answers
\* 500.
handleRequestCatch(method, rejection) ==
    IF method \in {"POST", "DELETE"} THEN "caught" ELSE rejection

HandleRequestThrows(method, hdr, body, rejection) ==
    /\ Serving
    /\ Len(reqs) < maxReqs
    /\ ~SessionMissing(hdr, transports)
    /\ (method = "POST") = (body # "none")
    /\ LET outcome == handleRequestCatch(method, rejection)
       IN  IF outcome = "unhandledRejection"
           THEN /\ reqs' = Append(reqs, Req(method, hdr, body, "done", transports[hdr], 0, FALSE))
                /\ phase' = "crashed"
           ELSE /\ reqs' = Append(reqs, Req(method, hdr, body, "done", transports[hdr], 500, FALSE))
                /\ UNCHANGED phase
    /\ UNCHANGED <<transports, tr, events, appended, replay, quota, maxReqs,
                   toolVars, moreVars>>

\* SIGINT / SIGTERM: shutdown() starts.
Signal ==
    /\ phase = "running"
    /\ phase' = "shutting"
    /\ UNCHANGED <<transports, tr, reqs, events, appended, replay, quota, maxReqs, toolVars, moreVars>>

\* One round of the loop of shutdown(): close a registered transport, then
\* transports.delete(sessionId).
ShutdownClose(sessionId) ==
    /\ phase = "shutting"
    /\ sessionId \in DOMAIN transports
    /\ tr[transports[sessionId]].state # "closeFailed"
    /\ LET t == transports[sessionId]
           afterClose == onclose(transports, tr[t].sessionId)
       IN  /\ tr' = [tr EXCEPT ![t].state = "closed"]
           /\ transports' = MapDelete(afterClose, sessionId)
    /\ UNCHANGED <<reqs, phase, events, appended, replay, quota, maxReqs, toolVars, moreVars>>

\* A round of the loop in which transport.close() rejects: the catch logs
\* the error, the entry stays in the registry and the loop goes on.
ShutdownCloseFails(sessionId) ==
    /\ phase = "shutting"
    /\ sessionId \in DOMAIN transports
    /\ tr[transports[sessionId]].state # "closeFailed"
    /\ tr' = [tr EXCEPT ![transports[sessionId]].state = "closeFailed"]
    /\ UNCHANGED <<transports, reqs, phase, events, appended, replay, quota, maxReqs,
                   toolVars, moreVars>>

\* The iterator of transports.entries() has no entry left: every entry still
\* in the registry is one the loop visited and whose close() failed (a
\* closed transport is deleted, an entry added meanwhile is visited too).
loopDoneOnlyWhenEmpty(reg, trs) == DOMAIN reg = {}

loopDone(reg, trs) == \A sessionId \in DOMAIN reg : trs[reg[sessionId]].state = "closeFailed"

\* The loop has visited every entry: process.exit(0).
ShutdownExit ==
    /\ phase = "shutting"
    /\ loopDone(transports, tr)
    /\ phase' = "exited"
    /\ UNCHANGED <<transports, tr, reqs, events, appended, replay, quota, maxReqs, toolVars, moreVars>>

\* ------------------------------------------------------------ event store
Data == {"d"}
StoredEvent(id, data) == [id |-> id, data |-> data]

storeEventDropsNewest(ev, sessionId, eventId, data) ==
    LET withKey == IF sessionId \in DOMAIN ev THEN ev ELSE MapSet(ev, sessionId, <<>>)
        pushed == Append(withKey[sessionId], StoredEvent(eventId, data))
        capped == IF Len(pushed) > maxEventsPerSession
                  THEN SubSeq(pushed, 1, Len(pushed) - 1) ELSE pushed
    IN  MapSet(withKey, sessionId, capped)

storeEvent(ev, sessionId, eventId, data) ==
    LET withKey == IF sessionId \in DOMAIN ev THEN ev ELSE MapSet(ev, sessionId, <<>>)
        pushed == Append(withKey[sessionId], StoredEvent(eventId, data))
        capped == IF Len(pushed) > maxEventsPerSession THEN Tail(pushed) ELSE pushed
    IN  MapSet(withKey, sessionId, capped)

\* Array.prototype.findIndex on the ids: 0-based index of the first event
\* whose id is lastEventId, or -1.
findIndex(sessionEvents, lastEventId) ==
    LET hits == {i \in 1 .. Len(sessionEvents) : sessionEvents[i].id = lastEventId}
    IN  IF hits = {} THEN 0 - 1
        ELSE (CHOOSE i \in hits : \A j \in hits : i <= j) - 1

\* Array.prototype.slice(start) for 0 <= start.
slice(arr, start) == SubSeq(arr, start + 1, Len(arr))

getEventsSinceNoneWhenAbsent(ev, sessionId, lastEventId) ==
    LET sessionEvents == IF sessionId \in DOMAIN ev THEN ev[sessionId] ELSE <<>>
        lastIndex == findIndex(sessionEvents, lastEventId)
    IN  IF ~Truthy(lastEventId) THEN <<>>
        ELSE IF lastIndex = 0 - 1 THEN sessionEvents
        ELSE slice(sessionEvents, lastIndex + 1)

getEventsSinceNoneWhenUnknown(ev, sessionId, lastEventId) ==
    LET sessionEvents == IF sessionId \in DOMAIN ev THEN ev[sessionId] ELSE <<>>
        lastIndex == findIndex(sessionEvents, lastEventId)
    IN  IF ~Truthy(lastEventId) THEN sessionEvents
        ELSE IF lastIndex = 0 - 1 THEN <<>>
        ELSE slice(sessionEvents, lastIndex + 1)

getEventsSince(ev, sessionId, lastEventId) ==
    LET sessionEvents == IF sessionId \in DOMAIN ev THEN ev[sessionId] ELSE <<>>
        lastIndex == findIndex(sessionEvents, lastEventId)
    IN  IF ~Truthy(lastEventId) THEN sessionEvents
        ELSE IF lastIndex = 0 - 1 THEN sessionEvents
        ELSE slice(sessionEvents, lastIndex + 1)

\* The sequence the generator of replayEventsAfter yields when it is
\* consumed at once: the elements of the array getEventsSince returned.
replayEventsAfter(ev, sessionId, lastEventId) == getEventsSince(ev, sessionId, lastEventId)

clearSessionClearsAll(ev, sessionId) == EmptyMap

clearSession(ev, sessionId) == MapDelete(ev, sessionId)

\* What is known of the last read of the log: the operation, its arguments,
\* the array it returned (out), and, for a replay that is consumed step by
\* step, whether the generator iterates the session's own array (live) or
\* an array of its own (arr), the index of its iterator (next) and what it
\* yielded so far.
NoReplay ==
    [op |-> "none", sid |-> 0, last |-> Undefined, out |-> <<>>,
     live |-> FALSE, arr |-> <<>>, next |-> 0, yielded |-> <<>>]

\* Ids a caller passes to storeEvent: the sequence number of the append, or,
\* for the first appends of a session, the empty string or a repeat of id 1.
IrregularIds == {0, 1}
IdChoices(s) ==
    {Len(appended[s]) + 1}
        \cup (IF Len(appended[s]) < FreeIdAppends THEN IrregularIds ELSE {})

\* Last-seen ids a caller passes to a replay.
NeverStored == MaxAppends + 1
LastIds == {Undefined, 0, NeverStored} \cup (1 .. FreeIdAppends)

StoreEvent(s, eventId, data) ==
    /\ Len(appended[s]) < quota[s]
    /\ eventId \in IdChoices(s)
    /\ events' = storeEvent(events, s, eventId, data)
    /\ appended' = [appended EXCEPT ![s] = Append(@, StoredEvent(eventId, data))]
    /\ replay' = IF replay.op = "iterate" THEN replay ELSE NoReplay
    /\ UNCHANGED <<transports, tr, reqs, phase, quota, maxReqs, toolVars, moreVars>>

GetEventsSince(s, lastEventId) ==
    /\ quota[s] > 0
    /\ replay' = [NoReplay EXCEPT !.op = "get", !.sid = s, !.last = lastEventId,
                                  !.out = getEventsSince(events, s, lastEventId)]
    /\ UNCHANGED <<transports, tr, reqs, phase, events, appended, quota, maxReqs, toolVars, moreVars>>

ReplayEventsAfter(s, lastEventId) ==
    /\ quota[s] > 0
    /\ replay' = [NoReplay EXCEPT !.op = "replay", !.sid = s, !.last = lastEventId,
                                  !.out = replayEventsAfter(events, s, lastEventId)]
    /\ UNCHANGED <<transports, tr, reqs, phase, events, appended, quota, maxReqs, toolVars, moreVars>>

ClearSession(s) ==
    /\ s \in DOMAIN events
    /\ events' = clearSession(events, s)
    /\ appended' = [appended EXCEPT ![s] = <<>>]
    /\ replay' = NoReplay
    /\ UNCHANGED <<transports, tr, reqs, phase, quota, maxReqs, toolVars, moreVars>>

\* getEventsSince returns the session's own array, not a copy, when the
\* session has one and no last-seen id is given or the id is not found;
\* otherwise it returns a new array (slice, or [] for an unknown session).
sharesArray(ev, sessionId, lastEventId) ==
    /\ sessionId \in DOMAIN ev
    /\ (~Truthy(lastEventId) \/ findIndex(ev[sessionId], lastEventId) = 0 - 1)

\* replayEventsAfter up to its return: getEventsSince is awaited and the
\* generator over the returned array is handed out, not yet started.
ReplayBegin(s, lastEventId) ==
    /\ quota[s] > 0
    /\ replay.op # "iterate"
    /\ LET out == getEventsSince(events, s, lastEventId)
           live == sharesArray(events, s, lastEventId)
       IN  replay' = [NoReplay EXCEPT !.op = "iterate", !.sid = s, !.last = lastEventId,
                                      !.out = out, !.live = live,
                                      !.arr = IF live THEN <<>> ELSE out]
    /\ UNCHANGED <<transports, tr, reqs, phase, events, appended, quota, maxReqs, toolVars,
                   moreVars>>

\* One next() of the generator: the array iterator of for-of compares its
\* index with the length the array has now and reads the element that is at
\* the index now; past the end the generator returns.
ReplayYield ==
    /\ replay.op = "iterate"
    /\ LET arr == IF replay.live THEN events[replay.sid] ELSE replay.arr
       IN  replay' = IF replay.next < Len(arr)
                     THEN [replay EXCEPT !.yielded = Append(@, arr[replay.next + 1]),
                                         !.next = @ + 1]
                     ELSE [replay EXCEPT !.op = "iterated"]
    /\ UNCHANGED <<transports, tr, reqs, phase, events, appended, quota, maxReqs, toolVars,
                   moreVars>>

\* An event is appended to the log of a live session of the adapter.
EmitEvent(s, eventId, data) ==
    /\ Serving
    /\ s \in DOMAIN transports
    /\ StoreEvent(s, eventId, data)

\* ------------------------------------------------- tool calls: the values
\* The one request a server shown here answers without a session: tools/list
\* on the stdio and SSE servers.
ListTools(adapter) ==
    /\ phase = "running"
    /\ adapter \in {"stdio", "sse"}
    /\ listed' = ListAnswer(adapter, Undefined)
    /\ UNCHANGED <<transports, tr, reqs, phase, events, appended, replay, quota, maxReqs,
                   call, served, moreVars>>

\* A name that no server registers.
UnknownName == "no_such_tool"
RequestedNames == ToolNames \cup {UnknownName}

\* Argument values.  Of a string the code looks at its length and at whether
\* trim() leaves it empty.
StringValue(len, blank) == [type |-> "string", len |-> len, blank |-> blank]
UndefinedValue == [type |-> "undefined", len |-> 0, blank |-> FALSE]
NumberValue == [type |-> "number", len |-> 0, blank |-> FALSE]
ArgValues ==
    {UndefinedValue, NumberValue,
     StringValue(0, TRUE), StringValue(1, TRUE), StringValue(1, FALSE),
     StringValue(maxLength, FALSE), StringValue(maxLength + 1, FALSE)}

\* The arguments of a tools/call.  For the two database tools `db` says how
\* far the arguments get: "ok", "rejectedByHandler" (they pass the registered
\* schema but fail the handler's own checks: a schema name longer than 63
\* characters, a query that is shorter than 10 characters once trimmed) or
\* "rejectedBySchema" (wrong type, out of range: both refuse them).
Args(isObject, v, db) == [isObject |-> isObject, numer_zamowienia |-> v, db |-> db]
VerifyArgs == {Args(FALSE, UndefinedValue, "ok")} \cup {Args(TRUE, v, "ok") : v \in ArgValues}
DbArgs == {Args(TRUE, UndefinedValue, d) : d \in {"ok", "rejectedByHandler", "rejectedBySchema"}}
AllArgs == VerifyArgs \cup DbArgs
ArgsOf(name) ==
    IF name = "verify_order" THEN VerifyArgs
    ELSE IF name \in ToolNames THEN DbArgs
    ELSE {Args(TRUE, UndefinedValue, "ok")}

\* Thrown values: type is the class of the error, statusCode is 0 when the
\* error carries none.
Err(type, statusCode, message) == [type |-> type, statusCode |-> statusCode, message |-> message]
NoError == Err("none", 0, "")

\* What the order backend sends as the body of its answer.
Order(status, klient) == [status |-> status, klient |-> klient]
NoOrder == Order("", "")
\* klient "undefined": daneZamowienia without the klient object.
Orders == {Order(st, k) : st \in {"pending", "completed"}, k \in {"Anna Kowalska", "undefined"}}
Payload(kind, order) == [kind |-> kind, order |-> order]
\* "notJson": a non-empty body that JSON.parse refuses; "malformed": JSON that
\* validateResponse refuses; "notFound": zamowienieIstnieje false; "found":
\* zamowienieIstnieje true with daneZamowienia.
Payloads ==
    {Payload(k, NoOrder) : k \in {"notJson", "malformed", "notFound"}}
        \cup {Payload("found", o) : o \in Orders}

\* Outcomes of fetch: 0 when it rejects with a network error (TypeError), or
\* the status of the response whose headers arrived.
HttpStatuses == {200, 400, 401, 403, 404, 408, 429, 500, 503}
FetchResults == {0} \cup HttpStatuses

\* The text of a content item, by its parts: the banner of the template
\* literal, and the values interpolated into it.
Text(banner, code, message, hint, status, klient, numer) ==
    [banner |-> banner, code |-> code, message |-> message, hint |-> hint,
     status |-> status, klient |-> klient, numer |-> numer]

\* What the server sends back for a tools/call: a result (content list), or
\* a JSON-RPC error.
NoResponse == [kind |-> "none", isError |-> FALSE, code |-> "", names |-> "", content |-> <<>>]
ToolResult(text) ==
    [kind |-> "result", isError |-> FALSE, code |-> "", names |-> "",
     content |-> <<[type |-> "text", text |-> text]>>]
\* The SDK's answer when it refuses a call or when a request handler throws:
\* a JSON-RPC error, or (McpServer of later SDK versions) a result flagged
\* isError whose text is the error message.
SdkReplies == {"jsonrpc", "isError"}
SdkError(sdk, code, message, names) ==
    IF sdk = "isError"
    THEN [kind |-> "result", isError |-> TRUE, code |-> code, names |-> names,
          content |-> <<[type |-> "text",
                         text |-> Text("sdk", 0, message, "", "", "", UndefinedValue)]>>]
    ELSE [kind |-> "error", isError |-> FALSE, code |-> code, names |-> names,
          content |-> <<>>]

\* -------------------------------------------------- tool calls: verify_order
\* trim() of an order number.
trim(v) == IF v.blank THEN StringValue(0, TRUE) ELSE v

\* handleVerifyOrder, argument checks: the error thrown, or NoError.
verifyArgsError(args) ==
    IF ~args.isObject THEN Err("Error", 0, "Nieprawidlowe argumenty narzedzia")
    ELSE IF args.numer_zamowienia.type # "string"
    THEN Err("Error", 0, "Parametr numer_zamowienia musi byc ciagiem znakow")
    ELSE NoError

\* ApiClient.verifyOrder, input validation: the error thrown, or NoError.
verifyOrderInputError(numerZamowienia) ==
    IF numerZamowienia.len = 0 \/ trim(numerZamowienia).len = 0
    THEN Err("ApiError", 400, "Numer zamowienia nie moze byc pusty")
    ELSE IF numerZamowienia.len > maxLength
    THEN Err("ApiError", 400, "Numer zamowienia jest zbyt dlugi (max 50 znakow)")
    ELSE NoError

\* handleErrorResponse: the message chosen by the switch on the status.
statusMessage(statusCode) ==
    CASE statusCode = 400 -> "Nieprawidlowe zadanie - sprawdz format numeru zamowienia"
      [] statusCode = 401 -> "Blad autoryzacji - nieprawidlowy token"
      [] statusCode = 403 -> "Brak dostepu do zasobu"
      [] statusCode = 404 -> "Endpoint API nie zostal znaleziony"
      [] statusCode = 429 -> "Przekroczono limit zadan - sprobuj ponownie pozniej"
      [] statusCode \in {500, 502, 503, 504} -> "Blad serwera API - sprobuj ponownie pozniej"
      [] OTHER -> "Blad API (kod)"

\* handleErrorResponse: what it throws for a response that is not ok.
\* response.json() reads the body; when the body is not JSON it rejects and
\* the catch calls response.text() on the body that has already been read,
\* which rejects with a TypeError (a body can be consumed once), so the
\* ApiError of the status is never constructed.
handleErrorResponse(statusCode, payload) ==
    IF payload.kind = "notJson"
    THEN Err("TypeError", 0, "Body is unusable")
    ELSE Err("ApiError", statusCode, statusMessage(statusCode))

\* response.json() followed by validateResponse for a response that is ok:
\* the error thrown, or NoError when a result is returned.
validateResponse(payload) ==
    IF payload.kind = "notJson" THEN Err("SyntaxError", 0, "Unexpected token")
    ELSE IF payload.kind = "malformed"
    THEN Err("ApiError", 500, "Nieprawidlowy format odpowiedzi z API")
    ELSE NoError

\* The catch of makeRequest: every failure leaves it as an ApiError.
makeRequestCatchNoAbort(error) ==
    IF error.type = "ApiError" THEN error
    ELSE IF error.type = "TypeError"
    THEN Err("ApiError", 503, "Blad polaczenia z API - sprawdz polaczenie sieciowe")
    ELSE Err("ApiError", 500, "Nieoczekiwany blad podczas komunikacji z API")

makeRequestCatch(error) ==
    IF error.type = "ApiError" THEN error
    ELSE IF error.type = "AbortError"
    THEN Err("ApiError", 408, "Przekroczono limit czasu zadania")
    ELSE IF error.type = "TypeError"
    THEN Err("ApiError", 503, "Blad polaczenia z API - sprawdz polaczenie sieciowe")
    ELSE Err("ApiError", 500, "Nieoczekiwany blad podczas komunikacji z API")

\* executeWithRetry: the statuses after which another attempt is made.
shouldRetry(statusCode) == statusCode = 408 \/ statusCode = 429 \/ statusCode >= 500

\* The catch of handleVerifyOrder: the text of the error result.
handleVerifyOrderCatch(error) ==
    IF error.type = "ApiError"
    THEN Text("error", error.statusCode, error.message,
              IF error.statusCode = 401 THEN "Prosze sprawdzic konfiguracje tokenu autoryzacyjnego."
              ELSE IF error.statusCode = 429 THEN "Prosze odczekac chwile przed kolejna proba."
              ELSE IF error.statusCode >= 500 THEN "Serwer API ma problemy. Sprobuj ponownie za kilka minut."
              ELSE "",
              "", "", UndefinedValue)
    ELSE Text("error", 0, error.message, "", "", "", UndefinedValue)

\* handleVerifyOrder, formatting of the result of apiClient.verifyOrder.  The
\* template of a found order reads klient.imie: without klient that throws a
\* TypeError, which the catch of the handler turns into an error text.
formatVerifyOrderNoStatus(payload, numer_zamowienia) ==
    IF payload.kind = "found"
    THEN IF payload.order.klient = "undefined"
         THEN handleVerifyOrderCatch(Err("TypeError", 0, "Cannot read properties of undefined"))
         ELSE Text("found", 0, "", "", "", payload.order.klient, UndefinedValue)
    ELSE Text("notFound", 0, "", "", "", "", numer_zamowienia)

formatVerifyOrder(payload, numer_zamowienia) ==
    IF payload.kind = "found"
    THEN IF payload.order.klient = "undefined"
         THEN handleVerifyOrderCatch(Err("TypeError", 0, "Cannot read properties of undefined"))
         ELSE Text("found", 0, "", "", payload.order.status, payload.order.klient,
                   UndefinedValue)
    ELSE Text("notFound", 0, "", "", "", "", numer_zamowienia)

\* ------------------------------------------------ tool calls: the call record
\* pc: "fetch" (fetch pending, abort timer armed), "body" (headers arrived,
\* timer cleared, body being read), "sleep" (backoff), "query" (a database
\* call pending), "done".  attempt is the loop variable of executeWithRetry,
\* status and payload are the response of the current attempt as far as it
\* has arrived.  History of the call: outbound counts the fetches started,
\* failures the attempts that ended in the catch of executeWithRetry,
\* timeouts the attempts the timer aborted, elapsed adds up the timer and
\* backoff delays the call has waited.
NoPayload == Payload("none", NoOrder)
\* config.supabaseBearerToken, and the tokens clients present in the
\* Authorization header of their initialize request (req.authToken is
\* undefined without the header).
supabaseBearerToken == "SUPABASE_BEARER_TOKEN"
SessionTokens == {"undefined", "token-A", "token-B"}

\* bearerToken is the third argument of handleVerifyOrder, authorization the
\* bearer credential of the last outbound request.
NoCall ==
    [adapter |-> "none", name |-> "none", args |-> Args(TRUE, UndefinedValue, "ok"),
     pc |-> "idle", handler |-> FALSE, attempt |-> 0, outbound |-> 0, failures |-> 0,
     timer |-> FALSE, status |-> 0, payload |-> NoPayload, timeouts |-> 0, elapsed |-> 0,
     lastError |-> NoError, response |-> NoResponse,
     bearerToken |-> "undefined", authorization |-> "none"]

NewCall(adapter, name, args) ==
    [NoCall EXCEPT !.adapter = adapter, !.name = name, !.args = args, !.pc = "dispatch"]

finish(c, response) ==
    [c EXCEPT !.pc = "done", !.timer = FALSE, !.response = response]

\* makeRequest up to its await of fetch: the abort timer is armed and the
\* request is sent.
\* The Authorization header is built from the configuration; verifyOrder
\* declares one parameter, so the token the handler passes as a second
\* argument is dropped at the call.
makeRequest(c) ==
    [c EXCEPT !.pc = "fetch", !.timer = TRUE, !.status = 0, !.payload = NoPayload,
              !.outbound = @ + 1, !.authorization = supabaseBearerToken]

\* The catch of executeWithRetry for the error of the current attempt: the
\* error is thrown on (and handleVerifyOrder answers with its text), or the
\* call sleeps before the next attempt.
executeWithRetryCatchOneMore(c, error) ==
    LET statusCode == IF error.statusCode = 0 THEN 500 ELSE error.statusCode
        thrown == [c EXCEPT !.lastError = error, !.failures = @ + 1]
    IN  IF error.type = "ApiError" /\ (~shouldRetry(statusCode) \/ c.attempt = maxRetries + 1)
        THEN finish(thrown, ToolResult(handleVerifyOrderCatch(error)))
        ELSE IF c.attempt < maxRetries + 1
        THEN [thrown EXCEPT !.pc = "sleep", !.timer = FALSE]
        ELSE finish(thrown, ToolResult(handleVerifyOrderCatch(error)))

executeWithRetryCatch(c, error) ==
    LET statusCode == IF error.statusCode = 0 THEN 500 ELSE error.statusCode
        thrown == [c EXCEPT !.lastError = error, !.failures = @ + 1]
    IN  IF error.type = "ApiError" /\ (~shouldRetry(statusCode) \/ c.attempt = maxRetries)
        THEN finish(thrown, ToolResult(handleVerifyOrderCatch(error)))
        ELSE IF c.attempt < maxRetries
        THEN [thrown EXCEPT !.pc = "sleep", !.timer = FALSE]
        ELSE finish(thrown, ToolResult(handleVerifyOrderCatch(error)))

\* The backoff delay after attempt number `attempt`.
sleepDelayConstant(attempt) == delayMs

sleepDelay(attempt) == delayMs * (2 ^ attempt)

\* handleVerifyOrder up to its first await.
handleVerifyOrderRethrows(c) ==
    LET invoked == [c EXCEPT !.handler = TRUE]
        argsError == verifyArgsError(c.args)
        inputError == verifyOrderInputError(c.args.numer_zamowienia)
    IN  IF argsError.type # "none"
        THEN finish(invoked, SdkError("jsonrpc", "InternalError", argsError.message, ""))
        ELSE IF inputError.type # "none"
        THEN finish(invoked, ToolResult(handleVerifyOrderCatch(inputError)))
        ELSE makeRequest(invoked)

handleVerifyOrder(c) ==
    LET invoked == [c EXCEPT !.handler = TRUE]
        argsError == verifyArgsError(c.args)
        inputError == verifyOrderInputError(c.args.numer_zamowienia)
    IN  IF argsError.type # "none"
        THEN finish(invoked, ToolResult(handleVerifyOrderCatch(argsError)))
        ELSE IF inputError.type # "none"
        THEN finish(invoked, ToolResult(handleVerifyOrderCatch(inputError)))
        ELSE makeRequest(invoked)

\* ------------------------------------------- tool calls: the database tools
\* How a call of the database client ends: with data, or with a rejection.
DbOutcomes == {"data", "notConfigured", "queryFailed", "onlySelect", "execSqlMissing", "TypeError"}

dbError(outcome) ==
    CASE outcome = "notConfigured" -> Err("ApiError", 500, "Database client not configured")
      [] outcome = "queryFailed" -> Err("ApiError", 500, "Database query failed")
      [] outcome = "onlySelect" -> Err("ApiError", 400, "Only SELECT queries are allowed")
      [] outcome = "execSqlMissing" -> Err("ApiError", 500, "Database client requires exec_sql RPC function")
      [] outcome = "TypeError" -> Err("TypeError", 0, "Cannot read properties of undefined")
      [] OTHER -> NoError

\* The catch of handleGetDatabaseSchema and of handleExecuteSQLLimited.
handleDatabaseCatch(name, error) ==
    IF error.type = "ApiError"
    THEN Text("error", 0, error.message,
              IF name = "execute_sql_limited" /\ error.statusCode = 400
              THEN "Sprawdz poprawnosc zapytania SQL."
              ELSE IF error.message = "Database client not configured"
              THEN "SUPABASE_PROJECT_URL, SUPABASE_SERVICE_ROLE_KEY"
              ELSE IF name = "get_database_schema"
                      /\ error.message = "Database client requires exec_sql RPC function"
              THEN "Wymagana jest funkcja exec_sql"
              ELSE "",
              "", "", UndefinedValue)
    ELSE Text("error", 0, error.message, "", "", "", UndefinedValue)

\* handleGetDatabaseSchema / handleExecuteSQLLimited up to their await of the
\* database client: the arguments are refused, or the query is sent.  No
\* timer is armed for it.
handleDatabaseTool(c) ==
    LET invoked == [c EXCEPT !.handler = TRUE]
    IN  IF c.args.db # "ok"
        THEN finish(invoked, ToolResult(handleDatabaseCatch(c.name,
                        Err("Error", 0, "Nieprawidlowy parametr"))))
        ELSE [invoked EXCEPT !.pc = "query", !.timer = FALSE]

\* ---------------------------------------------------- tool calls: dispatch
\* The input schema registered with server.registerTool (streamable HTTP).
inputSchemaAccepts(name, args) ==
    IF name = "verify_order"
    THEN /\ args.isObject
         /\ args.numer_zamowienia.type = "string"
         /\ args.numer_zamowienia.len >= minLength
         /\ args.numer_zamowienia.len <= maxLength
    ELSE args.db # "rejectedBySchema"

\* The handler a tool name selects.
toolHandler(c) ==
    IF c.name = "verify_order" THEN handleVerifyOrder(c) ELSE handleDatabaseTool(c)

\* The CallToolRequestSchema handler of the stdio and SSE servers: the if
\* chain on the name, then throw new Error; the SDK answers a throwing
\* request handler with a JSON-RPC error.
callToolRequestHandlerNoThrow(c) == toolHandler(c)

callToolRequestHandler(c) ==
    IF c.name \in ToolNames THEN toolHandler(c)
    ELSE finish(c, SdkError("jsonrpc", "InternalError", "Nieznane narzedzie", c.name))

\* tools/call on the McpServer of the streamable HTTP adapter: the SDK looks
\* the tool up, validates the arguments against its input schema and only
\* then calls the registered callback.
mcpServerCallTool(c, sdk) ==
    IF c.name \notin ToolNames
    THEN finish(c, SdkError(sdk, "InvalidParams", "Tool not found", c.name))
    ELSE IF ~inputSchemaAccepts(c.name, c.args)
    THEN finish(c, SdkError(sdk, "InvalidParams", "Invalid arguments for tool",
                            IF c.name = "verify_order" THEN "numer_zamowienia" ELSE "arguments"))
    ELSE toolHandler(c)

\* Whether the SDK itself answers the call on this adapter.
RefusedBySdk(adapter, name, args) ==
    adapter = "streamable" /\ (name \notin ToolNames \/ ~inputSchemaAccepts(name, args))

\* ----------------------------------------------------- tool calls: actions
\* A tools/call arrives: dispatch, and the handler up to its first await.
\* On the streamable adapter the server of the session was created with
\* the token of the initialize request (createMcpServer(.., authToken)) and
\* hands it to handleVerifyOrder; stdio and SSE pass no token.
CallToolWith(adapter, name, args, sdk, bearerToken) ==
    /\ phase = "running"
    /\ call.pc \in {"idle", "done"}
    /\ Len(served) + (IF call.pc = "done" THEN 1 ELSE 0) < MaxCalls
    /\ args \in ArgsOf(name)
    /\ sdk = "isError" => RefusedBySdk(adapter, name, args)
    /\ bearerToken # "undefined" => adapter = "streamable"
    /\ served' = IF call.pc = "done" THEN Append(served, call.name) ELSE served
    /\ LET c == [NewCall(adapter, name, args) EXCEPT !.bearerToken = bearerToken]
       IN  call' = IF adapter = "streamable"
                   THEN mcpServerCallTool(c, sdk)
                   ELSE callToolRequestHandler(c)
    /\ UNCHANGED <<transports, tr, reqs, phase, events, appended, replay, quota, maxReqs,
                   listed, moreVars>>

CallTool(adapter, name, args, sdk) == CallToolWith(adapter, name, args, sdk, "undefined")

\* fetch settles before the timer fires: it rejects (network error), or the
\* headers of the response arrive and clearTimeout is called.
FetchSettles(status) ==
    /\ call.pc = "fetch"
    /\ call' = IF status = 0
               THEN executeWithRetryCatch(call,
                        makeRequestCatch(Err("TypeError", 0, "fetch failed")))
               ELSE [call EXCEPT !.pc = "body", !.timer = FALSE, !.status = status]
    /\ UNCHANGED <<transports, tr, reqs, phase, events, appended, replay, quota, maxReqs,
                   served, listed, moreVars>>

\* The abort timer fires while fetch is pending: controller.abort(), fetch
\* rejects with an AbortError, the catch clears the timer.
TimerFires ==
    /\ call.pc = "fetch"
    /\ call.timer
    /\ call' = executeWithRetryCatch(
                  [call EXCEPT !.timeouts = @ + 1, !.elapsed = @ + apiTimeout],
                  makeRequestCatch(Err("AbortError", 0, "This operation was aborted")))
    /\ UNCHANGED <<transports, tr, reqs, phase, events, appended, replay, quota, maxReqs,
                   served, listed, moreVars>>

\* The body of the response has been read.
BodySettles(payload) ==
    /\ call.pc = "body"
    /\ LET read == [call EXCEPT !.payload = payload]
           thrown == IF call.status = 200 THEN validateResponse(payload)
                     ELSE handleErrorResponse(call.status, payload)
       IN  call' = IF thrown.type = "none"
                   THEN finish(read, ToolResult(
                            formatVerifyOrder(payload, call.args.numer_zamowienia)))
                   ELSE executeWithRetryCatch(read, makeRequestCatch(thrown))
    /\ UNCHANGED <<transports, tr, reqs, phase, events, appended, replay, quota, maxReqs,
                   served, listed, moreVars>>

\* The backoff delay is over: the next attempt starts.
SleepEnds ==
    /\ call.pc = "sleep"
    /\ call' = makeRequest([call EXCEPT !.attempt = @ + 1,
                                        !.elapsed = @ + sleepDelay(call.attempt)])
    /\ UNCHANGED <<transports, tr, reqs, phase, events, appended, replay, quota, maxReqs,
                   served, listed, moreVars>>

\* The database client settles.
QuerySettles(outcome) ==
    /\ call.pc = "query"
    /\ call' = finish(call, ToolResult(
                  IF outcome = "data"
                  THEN Text(IF call.name = "get_database_schema" THEN "schema" ELSE "rows",
                            0, "", "", "", "", UndefinedValue)
                  ELSE handleDatabaseCatch(call.name, dbError(outcome))))
    /\ UNCHANGED <<transports, tr, reqs, phase, events, appended, replay, quota, maxReqs,
                   served, listed, moreVars>>

\* --------------------------------------------------------- specifications
\* ------------------------------------------------------ execute_sql_limited
\* A query text is a sequence of words separated by white space: Word(w)
\* is a word of letters and punctuation, Num(n) a word of digits, and
\* Word(" ") stands for leading or trailing white space.
Word(w) == [w |-> w, n |-> Undefined]
Num(n) == [w |-> "", n |-> n]

\* String.prototype.toUpperCase, word by word.
toUpperCase(word) ==
    CASE word.w = "select" -> Word("SELECT")
      [] word.w = "limit" -> Word("LIMIT")
      [] word.w = "updated_at" -> Word("UPDATED_AT")
      [] word.w = "rate_limit" -> Word("RATE_LIMIT")
      [] word.w = "x" -> Word("X")
      [] word.w = "t" -> Word("T")
      [] word.w = "s" -> Word("S")
      [] OTHER -> word

\* The upper-case key words of which an upper-case word has the letters, in
\* a row: String.prototype.includes looks for letters, not for words.
Substrings(word) ==
    CASE word.w = "UPDATED_AT" -> {"UPDATE"}
      [] word.w = "RATE_LIMIT" -> {"LIMIT"}
      [] word.w \in {"SELECT", "DROP", "DELETE", "TRUNCATE", "INSERT", "UPDATE", "ALTER",
                     "LIMIT", "OFFSET"} -> {word.w}
      [] OTHER -> {}

upperCased(query) == [i \in 1 .. Len(query) |-> toUpperCase(query[i])]
includes(text, keyword) == \E i \in 1 .. Len(text) : keyword \in Substrings(text[i])
startsWith(text, keyword) == Len(text) > 0 /\ text[1].w = keyword

\* String.prototype.trim.
RECURSIVE trimQuery(_)
trimQuery(query) ==
    IF Len(query) > 0 /\ query[1] = Word(" ")
    THEN trimQuery(Tail(query))
    ELSE IF Len(query) > 0 /\ query[Len(query)] = Word(" ")
    THEN trimQuery(SubSeq(query, 1, Len(query) - 1))
    ELSE query

dangerousKeywords == {"DROP", "DELETE", "TRUNCATE", "INSERT", "UPDATE", "ALTER"}

\* The places where /LIMIT\s+(\d+)/ matches: letters LIMIT at the end of a
\* word, white space, digits at the start of the next word.
LimitMatches(text) ==
    {i \in 1 .. Len(text) - 1 : "LIMIT" \in Substrings(text[i]) /\ text[i + 1].n # Undefined}

\* What executeSQLWithLimit does with a query up to the call of
\* executeRawSQL: the error it throws, or the statement it sends.
NoSql ==
    [stage |-> "idle", query |-> <<>>, limit |-> Undefined, offset |-> 0,
     statement |-> <<>>, limited |-> FALSE, error |-> NoError]

\* The read-only guard: the error of the first check that fails, or "".
readOnlyGuardPrefixOnly(trimmedQuery) ==
    IF ~startsWith(trimmedQuery, "SELECT")
    THEN "Only SELECT queries are allowed"
    ELSE ""

readOnlyGuard(trimmedQuery) ==
    IF ~startsWith(trimmedQuery, "SELECT")
    THEN "Only SELECT queries are allowed"
    ELSE IF \E keyword \in dangerousKeywords : includes(trimmedQuery, keyword)
    THEN "Query contains dangerous keyword"
    ELSE ""

\* The LIMIT and OFFSET steps.
withLimit(finalQuery, trimmedQuery, effectiveLimit) ==
    IF ~includes(trimmedQuery, "LIMIT")
    THEN finalQuery \o <<Word("LIMIT"), Num(effectiveLimit)>>
    ELSE IF LimitMatches(trimmedQuery) = {}
    THEN finalQuery
    ELSE LET matches == LimitMatches(trimmedQuery)
             i == CHOOSE m \in matches : \A k \in matches : m <= k
             requestedLimit == trimmedQuery[i + 1].n
         IN  IF requestedLimit > effectiveLimit
             THEN [finalQuery EXCEPT ![i] = Word("LIMIT"), ![i + 1] = Num(effectiveLimit)]
             ELSE finalQuery

withOffset(finalQuery, trimmedQuery, offset) ==
    IF offset > 0 /\ ~includes(trimmedQuery, "OFFSET")
    THEN finalQuery \o <<Word("OFFSET"), Num(offset)>>
    ELSE finalQuery

executeSQLWithLimit(query, limit, offset) ==
    LET s == [NoSql EXCEPT !.query = query, !.limit = limit, !.offset = offset]
        trimmedQuery == upperCased(trimQuery(query))
        refusal == readOnlyGuard(trimmedQuery)
        effectiveLimit == IF limit # Undefined THEN limit ELSE defaultQueryLimit
        limitedQuery == withLimit(trimQuery(query), trimmedQuery, effectiveLimit)
    IN  IF refusal # ""
        THEN [s EXCEPT !.stage = "refused", !.error = Err("ApiError", 400, refusal)]
        ELSE [s EXCEPT !.stage = "sent",
                       !.limited = (limitedQuery # trimQuery(query)),
                       !.statement = withOffset(limitedQuery, trimmedQuery, offset)]

\* The query texts tried: a first word, a select list and source, and a
\* tail of clauses.
Queries ==
    LET Heads == {Word("SELECT"), Word("select"), Word("WITH"), Word("EXPLAIN")}
                    \cup {Word(k) : k \in dangerousKeywords}
        Middles ==
            { <<Word("x"), Word("FROM"), Word("t")>>,
              <<Word("rate_limit"), Word("FROM"), Word("t")>>,
              <<Word("updated_at"), Word("FROM"), Word("t")>>,
              <<Word("x"), Word("FROM"), Word("("), Word("SELECT"), Word("x"),
                Word("FROM"), Word("t"), Word("LIMIT"), Num(5), Word(")"), Word("s")>>,
              <<Word("x"), Word("FROM"), Word("t"), Word(";"), Word("DROP"),
                Word("TABLE"), Word("t")>> }
        Tails ==
            { <<>>,
              <<Word("LIMIT"), Num(5)>>,
              <<Word("limit"), Num(2000)>>,
              <<Word("LIMIT"), Word("ALL")>>,
              <<Word("LIMIT"), Num(5), Word("OFFSET"), Num(3)>>,
              <<Word("LIMIT"), Num(2000), Word(" ")>> }
    IN  {<<head>> \o middle \o tail : head \in Heads, middle \in Middles, tail \in Tails}
            \cup {<<Word(" "), Word("select")>> \o middle : middle \in Middles}

\* handleExecuteSQLLimited from its call of executeSQLWithLimit on, for
\* arguments that passed its own checks (a query of 10 characters or more,
\* limit undefined or 1 .. 1000, offset 0 or more).  DatabaseClient keeps nothing from one query
\* to the next: one query is followed.
ExecuteSQLLimited(query, limit, offset) ==
    /\ phase = "running"
    /\ sql.stage = "idle"
    /\ sql' = executeSQLWithLimit(query, limit, offset)
    /\ UNCHANGED <<srvVars, storeVars, quota, maxReqs, toolVars, mcpApiKey, conns, frames,
                   stdio>>

\* getDatabaseSchema: the statement it builds around its schema argument,
\* and what it does with it: the statement goes to the exec_sql function as
\* built, the read-only guard of executeSQLWithLimit is not on this path.
tablesQuery(schema) ==
    <<Word("SELECT"), Word("table_name"), Word(","), Word("table_schema"), Word("FROM"),
      Word("information_schema.tables"), Word("WHERE"), Word("table_schema"), Word("="),
      Word("'")>>
        \o schema
        \o <<Word("'"), Word("AND"), Word("table_type"), Word("="), Word("'"),
             Word("BASE TABLE"), Word("'"), Word("ORDER"), Word("BY"), Word("table_name"),
             Word(";")>>

getDatabaseSchema(schema) ==
    [NoSql EXCEPT !.stage = "sent", !.query = schema, !.statement = tablesQuery(schema)]

\* Schema arguments that pass the check of handleGetDatabaseSchema (a string
\* of 1 to 63 characters): a schema name, and a text that closes the quote
\* and goes on with a statement of its own.
Schemas ==
    { <<Word("public")>>,
      <<Word("erp")>>,
      <<Word("x"), Word("'"), Word(";"), Word("DROP"), Word("TABLE"), Word("t"), Word(";"),
        Word("--")>> }

GetDatabaseSchema(schema) ==
    /\ phase = "running"
    /\ sql.stage = "idle"
    /\ sql' = getDatabaseSchema(schema)
    /\ UNCHANGED <<srvVars, storeVars, quota, maxReqs, toolVars, mcpApiKey, conns, frames,
                   stdio>>

\* ------------------------------------------------------------ SSE adapter
\* conns.open: the GET /sse connections in order of arrival, each with the
\* Server instance created for it; conns.servers: the Server instances ever
\* created, each with the frames dispatched to it.
NoConns == [open |-> <<>>, servers |-> <<>>]

\* new Server(...): a new object.
newServer(servers) == Len(servers) + 1

\* The 'close' listener of the connection's request: mcpServer.close() of
\* the server captured by the closure.
closeListenerClosesAll(servers, mcpServer) ==
    [i \in 1 .. Len(servers) |-> [servers[i] EXCEPT !.state = "closed"]]

closeListener(servers, mcpServer) ==
    [servers EXCEPT ![mcpServer].state = "closed"]

\* GET /sse: a server is created and connected to a new SSEServerTransport
\* over the response, and the 'close' listener is registered.  connect
\* completes without waiting for input, so the connection cannot close
\* before the listener is there.
GetSse ==
    /\ phase = "running"
    /\ Len(conns.open) < MaxConns
    /\ LET mcpServer == newServer(conns.servers)
           connected == [state |-> "connected", inbox |-> <<>>]
       IN  conns' = [open |-> Append(conns.open, [state |-> "open", server |-> mcpServer]),
                     servers |-> Append(conns.servers, connected)]
    /\ UNCHANGED <<srvVars, storeVars, quota, maxReqs, toolVars, mcpApiKey, sql, frames,
                   stdio>>

\* The client's connection closes: req emits 'close'.
SseClose(c) ==
    /\ phase = "running"
    /\ c \in 1 .. Len(conns.open)
    /\ conns.open[c].state = "open"
    /\ conns' = [open |-> [conns.open EXCEPT ![c].state = "closed"],
                 servers |-> closeListener(conns.servers, conns.open[c].server)]
    /\ UNCHANGED <<srvVars, storeVars, quota, maxReqs, toolVars, mcpApiKey, sql, frames,
                   stdio>>

\* POST /message with a request frame addressed to connection c: the
\* handler answers 200 {received: true}.  It does not look at the frame and
\* does not call the transport of any connection (handlePostMessage), so
\* no server's inbox changes.
PostMessage(c, id) ==
    /\ phase = "running"
    /\ Len(frames) < MaxFrames
    /\ frames' = Append(frames,
          [conn |-> c, id |-> id, status |-> 200,
           toOpen |-> (c \in 1 .. Len(conns.open) /\ conns.open[c].state = "open")])
    /\ UNCHANGED <<srvVars, storeVars, quota, maxReqs, toolVars, mcpApiKey, sql, conns,
                   stdio>>

\* ---------------------------------------------------------- stdio adapter
\* stdio.decoded: the methods of the requests read from stdin, in order
\* (the place of a request in it serves as its id); stdio.running: the
\* requests whose handler is waiting for the backend; stdio.written: the
\* ids of the responses written to stdout, in order.
NoStdio == [decoded |-> <<>>, running |-> {}, written |-> <<>>]

\* A request is decoded and its handler is called.  Nothing in main waits
\* for the handler of an earlier request: the ListTools handler returns
\* without awaiting anything and its response is written at once, the
\* CallTool handler awaits the backend of its tool.
StdioRequest(method) ==
    /\ phase = "running"
    /\ Len(stdio.decoded) < MaxStdio
    /\ LET id == Len(stdio.decoded) + 1
       IN  stdio' = IF method = "tools/list"
                    THEN [stdio EXCEPT !.decoded = Append(@, method),
                                       !.written = Append(@, id)]
                    ELSE [stdio EXCEPT !.decoded = Append(@, method),
                                       !.running = @ \cup {id}]
    /\ UNCHANGED <<srvVars, storeVars, quota, maxReqs, toolVars, mcpApiKey, sql, conns,
                   frames>>

\* The backend call of a running handler settles, the handler returns and
\* its response is written.
StdioHandlerReturns(id) ==
    /\ phase = "running"
    /\ id \in stdio.running
    /\ stdio' = [stdio EXCEPT !.running = @ \ {id}, !.written = Append(@, id)]
    /\ UNCHANGED <<srvVars, storeVars, quota, maxReqs, toolVars, mcpApiKey, sql, conns,
                   frames>>

InitAdapters ==
    /\ sql = NoSql
    /\ conns = NoConns
    /\ frames = <<>>
    /\ stdio = NoStdio

\* No MCP_API_KEY in the environment: authMiddleware lets everything pass.
InitMore ==
    /\ mcpApiKey = Undefined
    /\ InitAdapters

InitServer ==
    /\ transports = EmptyMap
    /\ tr = [t \in 1 .. MaxRequests |-> NoTransport]
    /\ reqs = <<>>
    /\ phase = "running"

InitStoreEmpty ==
    /\ events = EmptyMap
    /\ appended = [s \in SessionIds |-> <<>>]
    /\ replay = NoReplay

InitTools ==
    /\ call = NoCall
    /\ served = <<>>
    /\ listed = NoList

\* The stateful-HTTP adapter.
Init ==
    /\ InitServer
    /\ InitStoreEmpty
    /\ InitTools
    /\ InitMore
    /\ quota = [s \in SessionIds |-> 0]
    /\ maxReqs = MaxRequests

Next ==
    \/ \E hdr \in Headers, body \in Bodies : PostMcp(hdr, body)
    \/ \E rid \in 1 .. MaxRequests : HandleInitialize(rid)
    \/ \E rid \in 1 .. MaxRequests : Respond(rid)
    \/ \E hdr \in Headers : GetMcp(hdr)
    \/ \E hdr \in Headers : DeleteMcp(hdr)
    \/ Signal
    \/ \E s \in SessionIds : ShutdownClose(s)
    \/ ShutdownExit

Spec == Init /\ [][Next]_vars

\* The adapter together with an event log that receives events for its live
\* sessions.
InitLog ==
    /\ InitServer
    /\ InitStoreEmpty
    /\ InitTools
    /\ InitMore
    /\ quota = [s \in SessionIds |-> SrvQuota]
    /\ maxReqs = LogRequests

NextLog ==
    \/ Next
    \/ \E s \in SessionIds, eventId \in IrregularIds \cup (1 .. SrvQuota), data \in Data :
          EmitEvent(s, eventId, data)

SpecLog == InitLog /\ [][NextLog]_vars

\* The event store on its own, driven through its public methods.
InitStore ==
    /\ InitServer
    /\ InitStoreEmpty
    /\ InitTools
    /\ InitMore
    /\ quota = [s \in SessionIds |->
                  IF s = 1 THEN MaxAppends ELSE IF s = 2 THEN MaxOther ELSE 0]
    /\ maxReqs = 0

NextStore ==
    \/ \E s \in SessionIds, eventId \in IrregularIds \cup (1 .. MaxAppends), data \in Data :
          StoreEvent(s, eventId, data)
    \/ \E s \in SessionIds, lastEventId \in LastIds : GetEventsSince(s, lastEventId)
    \/ \E s \in SessionIds, lastEventId \in LastIds : ReplayEventsAfter(s, lastEventId)
    \/ \E s \in SessionIds : ClearSession(s)

SpecStore == InitStore /\ [][NextStore]_vars

\* The event log with the reads a client makes first: without a last-seen
\* id, or with the id of the first event.
NextIso ==
    \/ \E s \in SessionIds, eventId \in IrregularIds \cup (1 .. MaxAppends), data \in Data :
          StoreEvent(s, eventId, data)
    \/ \E s \in SessionIds, lastEventId \in {Undefined, 1} : GetEventsSince(s, lastEventId)
    \/ \E s \in SessionIds, lastEventId \in {Undefined, 1} : ReplayEventsAfter(s, lastEventId)
    \/ \E s \in SessionIds : ClearSession(s)

SpecIso == InitStore /\ [][NextIso]_vars

\* A replay of session 1 that is consumed step by step while events are
\* appended to the session.
InitReplay ==
    /\ InitServer
    /\ InitStoreEmpty
    /\ InitTools
    /\ InitMore
    /\ quota = [s \in SessionIds |-> IF s = 1 THEN ReplayAppends ELSE 0]
    /\ maxReqs = 0

NextReplay ==
    \/ \E s \in SessionIds, eventId \in IrregularIds \cup (1 .. ReplayAppends), data \in Data :
          StoreEvent(s, eventId, data)
    \/ \E s \in SessionIds, lastEventId \in LastIds : ReplayBegin(s, lastEventId)
    \/ ReplayYield

SpecReplay == InitReplay /\ [][NextReplay]_vars

\* The servers answering tools/call, one call at a time: ApiClient and
\* DatabaseClient keep nothing from one call to the next, so calls that
\* overlap in time do not influence each other.
InitCalls ==
    /\ InitServer
    /\ InitStoreEmpty
    /\ InitTools
    /\ InitMore
    /\ quota = [s \in SessionIds |-> 0]
    /\ maxReqs = 0

NextCalls ==
    \/ \E adapter \in Adapters, name \in RequestedNames, args \in AllArgs, sdk \in SdkReplies :
          CallTool(adapter, name, args, sdk)
    \/ \E status \in FetchResults : FetchSettles(status)
    \/ TimerFires
    \/ \E payload \in Payloads : BodySettles(payload)
    \/ SleepEnds
    \/ \E outcome \in DbOutcomes : QuerySettles(outcome)

SpecCalls == InitCalls /\ [][NextCalls]_vars

\* A step of the call in progress.
CallProgress ==
    \/ \E status \in FetchResults : FetchSettles(status)
    \/ TimerFires
    \/ \E payload \in Payloads : BodySettles(payload)
    \/ SleepEnds
    \/ \E outcome \in DbOutcomes : QuerySettles(outcome)

\* The same servers when every awaited operation settles: the timers of
\* setTimeout fire, and the backend ends each attempt one way or another.
FairCalls == SpecCalls /\ WF_vars(CallProgress)

\* The stateful-HTTP adapter behind authMiddleware, started with and
\* without MCP_API_KEY, up to the moment a shutdown signal arrives.  What
\* authMiddleware does depends on the path and the two key headers only:
\* the requests carry no session header or the first id, and either an
\* initialize frame or none.
InitKey ==
    /\ InitServer
    /\ InitStoreEmpty
    /\ InitTools
    /\ InitAdapters
    /\ mcpApiKey \in {Undefined, 1}
    /\ quota = [s \in SessionIds |-> 0]
    /\ maxReqs = KeyRequests

NextKey ==
    \/ \E method \in {"POST", "GET", "DELETE"}, xApiKey \in KeyValues,
          authorization \in KeyValues, hdr \in {Undefined, 1}, body \in {"initialize", "none"} :
          McpRequest(method, xApiKey, authorization, hdr, body)
    \/ \E path \in OpenPaths, xApiKey \in KeyValues, authorization \in KeyValues,
          hasNumer \in BOOLEAN :
          OpenRoute(path, xApiKey, authorization, hasNumer)
    \/ \E rid \in 1 .. MaxRequests : HandleInitialize(rid)

SpecKey == InitKey /\ [][NextKey]_vars

\* execute_sql_limited, for the queries of Queries.
NextSql ==
    \E query \in Queries, limit \in {Undefined, 1, 10, 1000}, offset \in {0, 7} :
        ExecuteSQLLimited(query, limit, offset)

SpecSql == Init /\ [][NextSql]_vars

\* The tools that send SQL: execute_sql_limited and get_database_schema.
NextSchema ==
    \/ NextSql
    \/ \E schema \in Schemas : GetDatabaseSchema(schema)

SpecSchema == Init /\ [][NextSchema]_vars

\* The SSE adapter: connections come and go, frames are posted.
NextSse ==
    \/ GetSse
    \/ \E c \in 1 .. MaxConns : SseClose(c)
    \/ \E c \in 1 .. MaxConns, id \in 1 .. MaxFrameId : PostMessage(c, id)

SpecSse == Init /\ [][NextSse]_vars

\* The stdio server: requests arrive on stdin while handlers of earlier
\* requests are still waiting.
NextStdio ==
    \/ \E method \in {"tools/list", "tools/call"} : StdioRequest(method)
    \/ \E id \in 1 .. MaxStdio : StdioHandlerReturns(id)

SpecStdio == Init /\ [][NextStdio]_vars

\* verify_order calls of streamable-HTTP sessions that were initialized with
\* and without a bearer token.
NextAuth ==
    \/ \E args \in VerifyArgs, sdk \in SdkReplies, bearerToken \in SessionTokens :
          CallToolWith("streamable", "verify_order", args, sdk, bearerToken)
    \/ \E status \in FetchResults : FetchSettles(status)
    \/ TimerFires
    \/ \E payload \in Payloads : BodySettles(payload)
    \/ SleepEnds

SpecAuth == InitCalls /\ [][NextAuth]_vars

\* The adapter with its event log, where the frames posted to a session
\* include tools/list, next to the stdio and SSE servers answering tools/list.
InitList ==
    /\ InitServer
    /\ InitStoreEmpty
    /\ InitTools
    /\ InitMore
    /\ quota = [s \in SessionIds |-> SrvQuota]
    /\ maxReqs = ListRequests

NextList ==
    \/ \E hdr \in Headers, body \in Bodies \cup {"tools/list"} : PostMcp(hdr, body)
    \/ \E rid \in 1 .. MaxRequests : HandleInitialize(rid)
    \/ \E rid \in 1 .. MaxRequests : Respond(rid)
    \/ \E hdr \in Headers : GetMcp(hdr)
    \/ \E hdr \in Headers : DeleteMcp(hdr)
    \/ Signal
    \/ \E s \in SessionIds : ShutdownClose(s)
    \/ ShutdownExit
    \/ \E s \in SessionIds, eventId \in IrregularIds \cup (1 .. SrvQuota), data \in Data :
          EmitEvent(s, eventId, data)
    \/ \E adapter \in Adapters : ListTools(adapter)

SpecList == InitList /\ [][NextList]_vars

\* The stateful-HTTP adapter when mcpServer.connect and
\* transport.handleRequest may reject.
InitFail ==
    /\ InitServer
    /\ InitStoreEmpty
    /\ InitTools
    /\ InitMore
    /\ quota = [s \in SessionIds |-> 0]
    /\ maxReqs = FailRequests

NextFail ==
    \/ Next
    \/ \E rid \in 1 .. MaxRequests : ConnectThrows(rid)
    \/ \E rid \in 1 .. MaxRequests : HandleInitializeThrows(rid)
    \/ \E method \in {"POST", "GET", "DELETE"}, hdr \in SessionIds,
          body \in Bodies \cup {"none"},
          rejection \in {"unhandledRejection", "errorHandler"} :
          HandleRequestThrows(method, hdr, body, rejection)

SpecFail == InitFail /\ [][NextFail]_vars

\* The adapter with closes that fail during shutdown.
InitShut ==
    /\ InitServer
    /\ InitStoreEmpty
    /\ InitTools
    /\ InitMore
    /\ quota = [s \in SessionIds |-> 0]
    /\ maxReqs = ShutRequests

NextShut ==
    \/ Next
    \/ \E s \in SessionIds : ShutdownCloseFails(s)

SpecShut == InitShut /\ [][NextShut]_vars

\* shutdown() is one async function: after each await of close(), resolved
\* or rejected, the event loop runs its continuation, so the loop takes its
\* next round or exits.
ShutdownStep ==
    \/ \E s \in SessionIds : ShutdownClose(s) \/ ShutdownCloseFails(s)
    \/ ShutdownExit

FairShut == SpecShut /\ WF_vars(ShutdownStep)

TypeOK ==
    /\ DOMAIN transports \subseteq SessionIds
    /\ phase \in {"running", "shutting", "exited", "crashed"}
    /\ Len(reqs) <= maxReqs
    /\ \A s \in DOMAIN events : Len(events[s]) <= maxEventsPerSession

\* ----------------------------------------------------------------- claims
\* The request that arrives in this step, if one does.
Arrives == Len(reqs') = Len(reqs) + 1
Arrival == reqs'[Len(reqs')]

\* Request rid is an initialize POST that created a session and whose answer
\* reached the client.
SuccessfulInitialize(rs, rid) ==
    /\ rs[rid].method = "POST"
    /\ isInitializeRequest(rs[rid].body)
    /\ rs[rid].tid = rid
    /\ rs[rid].pc = "done"
    /\ rs[rid].status = 200
    /\ rs[rid].answered

\* Session id s was issued to a session that is no longer registered.
Closed(s) == s \in IssuedIds /\ s \notin DOMAIN transports

\* C1: when the answer of a successful initialize POST is sent, the session
\* id of the transport created for that request is a key of the registry
\* bound to that transport, and no other transport was ever given that id;
\* no step rebinds an entry of the registry to another transport.
C1_InitializeRegistersFreshId ==
    [][ /\ \A rid \in 1 .. MaxRequests :
              ( /\ rid <= Len(reqs)
                /\ reqs[rid].pc # "done"
                /\ SuccessfulInitialize(reqs', rid) )
              => LET sid == tr'[rid].sessionId
                 IN  /\ Truthy(sid)
                     /\ sid \in DOMAIN transports'
                     /\ transports'[sid] = rid
                     /\ \A t \in DOMAIN tr' \ {rid} : tr'[t].sessionId # sid
        /\ \A s \in DOMAIN transports \cap DOMAIN transports' :
              transports'[s] = transports[s]
      ]_vars

\* Two initialize POSTs have both succeeded, with different session ids, each
\* registered to its own transport.
C1_Witness ==
    \E a, b \in 1 .. Len(reqs) :
        /\ a # b
        /\ SuccessfulInitialize(reqs, a)
        /\ SuccessfulInitialize(reqs, b)
        /\ tr[a].sessionId # tr[b].sessionId
        /\ tr[a].sessionId \in DOMAIN transports
        /\ tr[b].sessionId \in DOMAIN transports
        /\ transports[tr[a].sessionId] = a
        /\ transports[tr[b].sessionId] = b

\* The requests C2 speaks of: the session id is not registered, or there is
\* none and the request is not an initialize POST.
Rejectable(r, reg) ==
    \/ Truthy(r.hdr) /\ r.hdr \notin DOMAIN reg
    \/ ~Truthy(r.hdr) /\ (r.method \in {"GET", "DELETE"} \/ ~isInitializeRequest(r.body))

C3_ClosedStaysClosed ==
    [][ /\ \A s \in SessionIds : Closed(s) => s \notin DOMAIN transports'
        /\ (Arrives /\ Truthy(Arrival.hdr) /\ Closed(Arrival.hdr))
              => Arrival.status = 400 /\ Arrival.tid = 0
      ]_vars

\* A session was terminated by a DELETE and a later request naming its id
\* was answered 400.
C3_Witness ==
    \E a, b \in 1 .. Len(reqs) :
        /\ a < b
        /\ reqs[a].method = "DELETE" /\ reqs[a].status = 200
        /\ reqs[b].hdr = reqs[a].hdr
        /\ reqs[b].status = 400
        /\ Closed(reqs[a].hdr)

\* C4: of two DELETE requests with the same session id, if the earlier one
\* is answered 200 the later one is answered 400, and the id of a DELETE
\* answered 200 is not a key of the registry; the server has not left its
\* running or shutting-down phases by a crash.
C4_SecondDeleteRejected ==
    /\ \A a, b \in 1 .. Len(reqs) :
          ( /\ a < b
            /\ reqs[a].method = "DELETE" /\ reqs[b].method = "DELETE"
            /\ reqs[a].hdr = reqs[b].hdr
            /\ reqs[a].status = 200 )
          => reqs[b].status = 400
    /\ \A a \in 1 .. Len(reqs) :
          (reqs[a].method = "DELETE" /\ reqs[a].status = 200)
          => reqs[a].hdr \notin DOMAIN transports
    /\ phase \in {"running", "shutting", "exited"}

\* Two DELETE requests with the same id were answered 200 and then 400.
C4_Witness ==
    \E a, b \in 1 .. Len(reqs) :
        /\ a < b
        /\ reqs[a].method = "DELETE" /\ reqs[b].method = "DELETE"
        /\ reqs[a].hdr = reqs[b].hdr
        /\ reqs[a].status = 200
        /\ reqs[b].status = 400

C6_RegisteredPostReusesTransport ==
    [][ /\ ( /\ Arrives
             /\ Arrival.method = "POST"
             /\ Truthy(Arrival.hdr)
             /\ Arrival.hdr \in DOMAIN transports )
           => /\ Arrival.tid = transports[Arrival.hdr]
              /\ transports' = transports
              /\ tr' = tr
        /\ \A rid \in 1 .. Len(reqs) :
              ( /\ reqs[rid].method = "POST"
                /\ reqs[rid].tid # rid
                /\ reqs[rid].pc = "pending"
                /\ reqs'[rid].pc = "done" )
              => transports' = transports /\ tr' = tr
      ]_vars

\* A tools/call and an initialize were both posted with a registered session
\* id and both reached the transport bound to it; the call was answered, the
\* initialize was refused by that transport, and one session is registered.
C6_Witness ==
    \E a, b, c \in 1 .. Len(reqs) :
        /\ SuccessfulInitialize(reqs, a)
        /\ reqs[b].method = "POST" /\ reqs[b].body = "tools/call"
        /\ reqs[b].tid = a /\ reqs[b].answered
        /\ reqs[c].method = "POST" /\ isInitializeRequest(reqs[c].body)
        /\ reqs[c].tid = a /\ reqs[c].status = 400
        /\ Cardinality(DOMAIN transports) = 1

\* The last n elements of a sequence.
LastN(seq, n) == IF Len(seq) <= n THEN seq ELSE SubSeq(seq, Len(seq) - n + 1, Len(seq))

\* What a session should retain: the most recent appends, oldest first.
Window(s) == LastN(appended[s], maxEventsPerSession)

Retained(s) == IF s \in DOMAIN events THEN events[s] ELSE <<>>

Replayed == replay.op \in {"get", "replay"}

\* C7: a replay without a last-seen id returns the most recent appends of
\* the session, at most maxEventsPerSession of them, in append order.
C7_ReplayAllWhenAbsent ==
    (Replayed /\ replay.last = Undefined) => replay.out = Window(replay.sid)

\* replayEventsAfter without a last-seen id, on a session that has already
\* evicted an event, yielded the whole window.
C7_Witness ==
    /\ replay.op = "replay"
    /\ replay.last = Undefined
    /\ Len(appended[replay.sid]) > maxEventsPerSession
    /\ Len(replay.out) = maxEventsPerSession
    /\ replay.out[1] = appended[replay.sid][Len(appended[replay.sid]) - maxEventsPerSession + 1]

\* C8: when the last-seen id is the id of a retained event, the replay is
\* exactly the events that follow that event, and holds no event with that id.
C8_ReplaySuffixAfterKnownId ==
    Replayed =>
        LET kept == Retained(replay.sid)
        IN  \A i \in 1 .. Len(kept) :
                kept[i].id = replay.last
                => /\ replay.out = SubSeq(kept, i + 1, Len(kept))
                   /\ \A j \in 1 .. Len(replay.out) : replay.out[j].id # replay.last

\* C9: every session retains at most maxEventsPerSession events, and they
\* are the most recently appended ones in append order.
C9_BoundedFifoWindow ==
    \A s \in SessionIds :
        /\ Len(Retained(s)) <= maxEventsPerSession
        /\ Retained(s) = Window(s)

\* A session received more appends than the cap: it retains exactly the cap,
\* its first appends are gone and its newest append is last.
C9_Witness ==
    \E s \in SessionIds :
        /\ Len(appended[s]) = maxEventsPerSession + 2
        /\ Len(Retained(s)) = maxEventsPerSession
        /\ Retained(s)[1] = appended[s][3]
        /\ Retained(s)[maxEventsPerSession] = appended[s][Len(appended[s])]

\* C10: a replay whose last-seen id is given and is the id of no retained
\* event returns the whole retained window; a replay on a session without
\* stored events returns the empty sequence.
C10_ReplayAllWhenUnknown ==
    Replayed =>
        /\ ( /\ replay.last # Undefined
             /\ \A i \in 1 .. Len(Retained(replay.sid)) :
                   Retained(replay.sid)[i].id # replay.last )
           => replay.out = Window(replay.sid)
        /\ appended[replay.sid] = <<>> => replay.out = <<>>

\* The last-seen id names the first event ever appended, which has been
\* evicted: the replay returned the full window.
C10_Witness ==
    /\ Replayed
    /\ Truthy(replay.last)
    /\ Len(appended[replay.sid]) > maxEventsPerSession
    /\ appended[replay.sid][1].id = replay.last
    /\ \A i \in 1 .. Len(Retained(replay.sid)) : Retained(replay.sid)[i].id # replay.last
    /\ Len(replay.out) = maxEventsPerSession

\* The POST requests dispatched to the transport of session s whose answer
\* was written to the client.
Answered(s) ==
    {rid \in 1 .. Len(reqs) :
        /\ reqs[rid].method = "POST"
        /\ reqs[rid].answered
        /\ reqs[rid].tid # 0
        /\ tr[reqs[rid].tid].sessionId = s}

\* C11: every response the adapter has emitted for a session is an event of
\* that session's log, and a GET /mcp with a registered session id has
\* replayed the log of that session from the last-seen id on.
C11_ResponsesLoggedAndReplayed ==
    /\ \A s \in SessionIds :
          Answered(s) # {} => Len(appended[s]) >= Cardinality(Answered(s))
    /\ \A rid \in 1 .. Len(reqs) :
          (reqs[rid].method = "GET" /\ reqs[rid].status = 200)
          => (replay.op = "replay" /\ replay.sid = reqs[rid].hdr)

\* ------------------------------------------------- claims about tool calls
\* A result whose content list holds exactly one text item and that is not
\* flagged as an error.
NormalResult(r) ==
    /\ r.kind = "result"
    /\ ~r.isError
    /\ Len(r.content) = 1
    /\ r.content[1].type = "text"

\* An error response: a JSON-RPC error, or a result flagged isError.
ErrorResponse(r) == r.kind = "error" \/ (r.kind = "result" /\ r.isError)

\* The text of the one content item of the answer to call c.
TextOf(c) == c.response.content[1].text

\* The current attempt ends in this step.
AttemptEnds == call.pc \in {"fetch", "body"} /\ call'.pc \in {"sleep", "done"}

\* C12: whenever one of the three tool handlers was invoked and the call is
\* over, the answer is a result, not an error, whose content list holds
\* exactly one item, of type text: whatever the arguments were and however
\* the backend answered.
C12_HandlersReturnOneTextItem ==
    (call.pc = "done" /\ call.handler) => NormalResult(call.response)

\* After a database tool answered a rejected query with an error text,
\* verify_order was called with arguments that are not an object and answered
\* with an error text as well.
C12_Witness ==
    /\ served = <<"execute_sql_limited">>
    /\ call.pc = "done"
    /\ call.name = "verify_order"
    /\ call.handler
    /\ ~call.args.isObject
    /\ NormalResult(call.response)
    /\ TextOf(call).banner = "error"

ClientErrors == {400, 401, 403, 404}

\* C13: an attempt whose response has status 400, 401, 403 or 404 ends the
\* call in the same step with a result carrying that status, without any
\* further outbound request; and a new attempt is only started after an error
\* of status 408, 429 or at least 500.
C13_ClientErrorsEndTheCall ==
    [][ /\ (call.pc = "body" /\ call.status \in ClientErrors /\ call'.pc # "body")
           => /\ call'.pc = "done"
              /\ call'.outbound = call.outbound
              /\ TextOf(call').code = call.status
        /\ (call.pc = "sleep" /\ call'.pc = "fetch")
           => \/ call.lastError.statusCode \in {408, 429}
              \/ call.lastError.statusCode >= 500
      ]_vars

\* Progress measure of a call: it decreases with every step of the call.
Rank(c) ==
    IF c.pc = "done" \/ c.pc = "idle" THEN 0
    ELSE 3 * (maxRetries - c.attempt)
            + (IF c.pc = "fetch" THEN 3 ELSE IF c.pc = "body" THEN 2 ELSE 1)

C15_TimeoutIsAResult ==
    /\ phase = "running"
    /\ call.elapsed >= call.timeouts * apiTimeout
    /\ call.pc \in {"sleep", "done", "idle"} => ~call.timer
    /\ (call.pc = "done" /\ call.outbound > 0 /\ call.timeouts = call.outbound)
       => /\ NormalResult(call.response)
          /\ TextOf(call).banner = "error"
          /\ TextOf(call).code = 408
          /\ call.elapsed >= apiTimeout

\* Every attempt of a call ran into the timer: the result is the 408 text,
\* after three timeouts and two backoff delays.
C15_Witness ==
    /\ call.pc = "done"
    /\ call.name = "verify_order"
    /\ call.timeouts = maxRetries + 1
    /\ call.outbound = maxRetries + 1
    /\ TextOf(call).code = 408
    /\ call.elapsed = 3 * apiTimeout + sleepDelay(0) + sleepDelay(1)
    /\ ~call.timer

\* C16: whenever a tool call waits for the backend (for the response, for its
\* body, or for a database query) the abort timer of that wait is armed, so
\* that the wait is ended when the backend never answers.
C16_OutboundCallsTimeBounded ==
    call.pc \in {"fetch", "body", "query"} => call.timer

\* The order numbers C17 speaks of: missing, not a string, or too long.
InvalidOrderNumber(args) ==
    \/ ~args.isObject
    \/ args.numer_zamowienia.type # "string"
    \/ args.numer_zamowienia.len > maxLength

\* C17: on every adapter a verify_order call whose numer_zamowienia is
\* missing, not a string or longer than maxLength is answered with an error
\* response that names numer_zamowienia; the handler was not invoked and no
\* outbound request was made.
C17_InvalidArgumentsRefused ==
    (call.pc = "done" /\ call.name = "verify_order" /\ InvalidOrderNumber(call.args))
    => /\ ErrorResponse(call.response)
       /\ call.response.names = "numer_zamowienia"
       /\ ~call.handler
       /\ call.outbound = 0

\* C18: a call that names no registered tool is answered at once with an
\* error response that names the tool; no handler was invoked and no outbound
\* request was made; the process keeps running and, on every adapter, the
\* next call can be received.
C18_UnknownToolRejected ==
    /\ phase = "running"
    /\ (call.pc # "idle" /\ call.name \notin ToolNames)
       => /\ call.pc = "done"
          /\ ErrorResponse(call.response)
          /\ call.response.names = call.name
          /\ ~call.handler
          /\ call.outbound = 0
          /\ Len(served) + 1 < MaxCalls
                => \A adapter \in Adapters :
                      ENABLED CallTool(adapter, "verify_order",
                                       Args(TRUE, StringValue(1, FALSE), "ok"), "jsonrpc")

\* The SSE server refused a call of an unknown tool and then answered a
\* verify_order call with the text of a found order.
C18_Witness ==
    /\ served = <<UnknownName>>
    /\ call.adapter = "sse"
    /\ call.pc = "done"
    /\ call.name = "verify_order"
    /\ NormalResult(call.response)
    /\ TextOf(call).banner = "found"

\* The names of a tools/list answer are exactly the three registered tools.
ExactlyTheTools(tools) ==
    /\ Len(tools) = Cardinality(ToolNames)
    /\ {tools[i] : i \in 1 .. Len(tools)} = ToolNames

C20_FoundAndNotFoundTexts ==
    (call.pc = "done" /\ call.name = "verify_order" /\ call.status = 200)
    => /\ ( /\ call.payload.kind = "found"
            /\ call.payload.order.klient # "undefined" )
          => /\ NormalResult(call.response)
             /\ TextOf(call).banner = "found"
             /\ TextOf(call).status = call.payload.order.status
             /\ TextOf(call).klient = call.payload.order.klient
       /\ call.payload.kind = "notFound"
          => /\ NormalResult(call.response)
             /\ TextOf(call).banner = "notFound"
             /\ TextOf(call).numer = call.args.numer_zamowienia

\* After an earlier verify_order call, a completed order of Anna Kowalska
\* was found for an order number of the greatest allowed length.
C20_Witness ==
    /\ served = <<"verify_order">>
    /\ call.pc = "done"
    /\ call.args.numer_zamowienia = StringValue(maxLength, FALSE)
    /\ call.payload = Payload("found", Order("completed", "Anna Kowalska"))
    /\ TextOf(call).banner = "found"
    /\ TextOf(call).status = "completed"
    /\ TextOf(call).klient = "Anna Kowalska"

\* The request whose handling fails in this step: it is answered 500, or
\* the process exits with code 1 while handling it.
FailsNow(rid) ==
    /\ rid \in 1 .. Len(reqs')
    /\ \/ /\ reqs'[rid].status = 500
          /\ (rid > Len(reqs) \/ reqs[rid].status # 500)
       \/ /\ phase' = "crashed"
          /\ phase # "crashed"
          /\ rid = Len(reqs')

\* C21: a step in which the handling of a request of one session fails
\* leaves the process running, and leaves every other registered session
\* registered with its transport as it was.
C21_FailureStaysInItsSession ==
    [][\A rid \in 1 .. MaxRequests + 1 :
          FailsNow(rid)
          => /\ phase' = phase
             /\ \A s \in DOMAIN transports :
                   s # reqs'[rid].hdr
                   => /\ s \in DOMAIN transports'
                      /\ transports'[s] = transports[s]
                      /\ tr'[transports[s]] = tr[transports[s]]]_vars

\* A request that the handler itself refused because no registered session
\* goes with it (header absent, unknown, or of a closed session).
SessionRejection(r) == r.pc = "done" /\ r.tid = 0 /\ r.status # 0

\* C22: every request refused for want of a session, whatever its method,
\* is answered with a 4xx status and a JSON error object with a code and a
\* message.
C22_RejectionsAreJsonErrors ==
    \A rid \in 1 .. Len(reqs) :
        SessionRejection(reqs[rid])
        => /\ reqs[rid].status \in 400 .. 499
           /\ reqs[rid].reply = "json-rpc error"

\* C23: once a verify_order call of a session initialized with a bearer
\* token has sent a request to the backend, the credential of that request
\* is the token of the session; and when two calls in a row come from
\* sessions with different tokens, their requests carry different
\* credentials.
C23_OutboundCarriesSessionToken ==
    [][/\ (call'.outbound > 0 /\ call'.bearerToken # "undefined")
          => call'.authorization = call'.bearerToken
       /\ ( /\ call.pc = "done" /\ call.outbound > 0
            /\ call'.outbound > 0
            /\ call.bearerToken # "undefined" /\ call'.bearerToken # "undefined"
            /\ call.bearerToken # call'.bearerToken )
          => call.authorization # call'.authorization]_vars

\* C24: when MCP_API_KEY is set, a request to /mcp that presents no key is
\* answered 401 and one that presents another key 403, and in both cases no
\* transport is created and the registry stays as it was; a request to
\* /health, / or /test/verify-order reaches its route whatever key it
\* presents, and none is answered 401 or 403.
C24_KeyGuardsMcpOnly ==
    [][/\ \A method \in {"POST", "GET", "DELETE"}, xApiKey \in KeyValues,
             authorization \in KeyValues, hdr \in {Undefined, 1}, body \in {"initialize", "none"} :
             ( /\ Truthy(mcpApiKey)
               /\ apiKeyOf(xApiKey, authorization) # mcpApiKey
               /\ McpRequest(method, xApiKey, authorization, hdr, body) )
             => /\ reqs'[Len(reqs')].status =
                      (IF Truthy(apiKeyOf(xApiKey, authorization)) THEN 403 ELSE 401)
                /\ reqs'[Len(reqs')].pc = "done"
                /\ transports' = transports
                /\ tr' = tr
       /\ \A path \in OpenPaths, hasNumer \in BOOLEAN :
             (hasNumer \/ path = "/test/verify-order")
             => ((ENABLED OpenRoute(path, Undefined, Undefined, hasNumer))
                   <=> (Serving /\ Len(reqs) < maxReqs))
       /\ \A rid \in 1 .. Len(reqs') :
             reqs'[rid].path \in OpenPaths => reqs'[rid].status \notin {401, 403}]_vars

\* With the key set, an initialize request that presented no key was
\* answered 401 and a second one that presented another key 403; no
\* transport was created and the registry is empty.
C24_Witness ==
    /\ Truthy(mcpApiKey)
    /\ Len(reqs) = 2
    /\ reqs[1].path = "/mcp" /\ reqs[1].body = "initialize" /\ reqs[1].status = 401
    /\ reqs[2].path = "/mcp" /\ reqs[2].body = "initialize" /\ reqs[2].status = 403
    /\ transports = EmptyMap
    /\ \A t \in 1 .. MaxRequests : tr[t] = NoTransport

\* A query that only reads, in the sense of the guard: its first word is
\* SELECT in any case, and nowhere in it stand the letters of one of the
\* six modifying key words.
ReadOnlyText(query) ==
    LET text == upperCased(trimQuery(query))
    IN  /\ Len(text) > 0
        /\ text[1] = Word("SELECT")
        /\ \A i \in 1 .. Len(text) : Substrings(text[i]) \cap dangerousKeywords = {}

\* C25: a statement is sent to the backend exactly when the query is
\* read-only text; every other query is refused with an ApiError of status
\* 400, and nothing is sent for it.
C25_OnlyReadOnlyTextIsSent ==
    sql.stage # "idle"
    => /\ (sql.stage = "sent") <=> ReadOnlyText(sql.query)
       /\ ~ReadOnlyText(sql.query)
          => /\ sql.stage = "refused"
             /\ sql.error.type = "ApiError"
             /\ sql.error.statusCode = 400
             /\ sql.statement = <<>>

\* A query that starts with SELECT and goes on with a DROP statement was
\* refused with status 400.
C25_Witness ==
    /\ sql.query = <<Word("SELECT"), Word("x"), Word("FROM"), Word("t"), Word(";"),
                     Word("DROP"), Word("TABLE"), Word("t")>>
    /\ sql.stage = "refused"
    /\ sql.error.statusCode = 400
    /\ sql.statement = <<>>

\* The LIMIT clauses of the outermost SELECT of a statement: the word LIMIT
\* outside every parenthesis, followed by a number.
Depth(statement, i) ==
    Cardinality({j \in 1 .. i - 1 : statement[j] = Word("(")})
        - Cardinality({j \in 1 .. i - 1 : statement[j] = Word(")")})

OuterLimits(statement) ==
    {i \in 1 .. Len(statement) - 1 :
        /\ toUpperCase(statement[i]) = Word("LIMIT")
        /\ statement[i + 1].n # Undefined
        /\ Depth(statement, i) = 0}

\* C26: every statement that is sent has a LIMIT clause on its outermost
\* SELECT, and its number is at most the effective limit: the limit
\* argument, or the default of 50 without one.
C26_SentStatementIsCapped ==
    sql.stage = "sent"
    => LET effectiveLimit == IF sql.limit # Undefined THEN sql.limit ELSE defaultQueryLimit
       IN  /\ OuterLimits(sql.statement) # {}
           /\ \A i \in OuterLimits(sql.statement) : sql.statement[i + 1].n <= effectiveLimit

\* C27: every connection has a server instance of its own; the server of a
\* connection is closed once that connection has closed, and the server of
\* every connection that is still open is connected.
C27_OneServerPerConnection ==
    /\ \A c, d \in 1 .. Len(conns.open) :
          c # d => conns.open[c].server # conns.open[d].server
    /\ \A c \in 1 .. Len(conns.open) :
          /\ conns.open[c].server \in 1 .. Len(conns.servers)
          /\ conns.servers[conns.open[c].server].state =
                (IF conns.open[c].state = "open" THEN "connected" ELSE "closed")

\* Of three connections the second has closed and its server with it; the
\* servers of the first and the third are connected.
C27_Witness ==
    /\ Len(conns.open) = 3
    /\ conns.open[1].state = "open" /\ conns.servers[conns.open[1].server].state = "connected"
    /\ conns.open[2].state = "closed" /\ conns.servers[conns.open[2].server].state = "closed"
    /\ conns.open[3].state = "open" /\ conns.servers[conns.open[3].server].state = "connected"

\* C28, as far as a finite run can show it: a frame posted for an open
\* connection has been handed to the server of that connection by the time
\* POST /message is answered (without that, no answer can follow on the
\* event stream).
C28_PostedFramesAreDispatched ==
    \A f \in 1 .. Len(frames) :
        frames[f].toOpen
        => \E i \in 1 .. Len(conns.servers[conns.open[frames[f].conn].server].inbox) :
              conns.servers[conns.open[frames[f].conn].server].inbox[i] = frames[f].id

\* C29: the responses are written to stdout in the order in which their
\* requests were decoded.
C29_ResponsesInRequestOrder ==
    \A i, j \in 1 .. Len(stdio.written) :
        i < j => stdio.written[i] < stdio.written[j]

\* The upstream failure the last attempt of call c ended with: by the HTTP
\* status the backend answered, or a timeout when the timer aborted the
\* attempt before any status arrived.
FailureClass(c) ==
    IF c.status = 401 THEN "auth"
    ELSE IF c.status = 429 THEN "rate limit"
    ELSE IF c.status >= 500 THEN "server error"
    ELSE IF c.status = 0 /\ c.outbound > 0 /\ c.lastError.statusCode = 408 THEN "timeout"
    ELSE "other"

\* The status code that tells the class in the text of the result.
ClassCode(c) == IF FailureClass(c) = "timeout" THEN 408 ELSE c.status

\* C30: a verify_order call whose last attempt ended with a timeout, an
\* authentication failure, a rate limit or a server error is answered with
\* a normal result whose text is an error text carrying the status code of
\* that class (which sets it apart from the other classes and from the
\* found and not-found texts) and a remediation hint.
C30_FailureClassesAreReported ==
    (call.pc = "done" /\ call.name = "verify_order" /\ FailureClass(call) # "other")
    => /\ NormalResult(call.response)
       /\ TextOf(call).banner = "error"
       /\ TextOf(call).code = ClassCode(call)
       /\ TextOf(call).hint # ""

\* C31: a client may choose the session id itself: an initialize POST that
\* carries an Mcp-Session-Id the server never issued is accepted (it is not
\* answered 400), so that later requests with that id reach its session.
C31_ClientChosenIdAccepted ==
    [][(/\ Arrives
        /\ Arrival.method = "POST"
        /\ isInitializeRequest(Arrival.body)
        /\ Truthy(Arrival.hdr)
        /\ Arrival.hdr \notin IssuedIds)
       => Arrival.status # 400]_vars

\* C32: event ids are assigned by the log in sequence: in every session the
\* ids of the retained events are strictly increasing in append order, hence
\* pairwise distinct.
C32_RetainedIdsIncrease ==
    \A s \in SessionIds :
        \A i, j \in 1 .. Len(Retained(s)) :
            i < j => Retained(s)[i].id < Retained(s)[j].id

\* The time one call has spent waiting between attempts: what elapsed holds
\* beyond the request timers that fired.
Waited(c) == c.elapsed - c.timeouts * apiTimeout

\* C33: between the attempts of one verifyOrder call the wait doubles: the
\* second attempt starts after delayMs, the third after a further 2 * delayMs;
\* nothing is waited before the first attempt, after the final failed attempt
\* or after a failure that is not retried, and a wait is entered only after a
\* retryable failure of an attempt that is not the last.
C33_BackoffDoubles ==
    /\ call.attempt = 0 => Waited(call) = 0
    /\ call.attempt = 1 => Waited(call) = delayMs
    /\ call.attempt = 2 => Waited(call) = delayMs + 2 * delayMs
    /\ call.attempt <= maxRetries
    /\ call.pc = "sleep" =>
          /\ call.attempt < maxRetries
          /\ shouldRetry(IF call.lastError.statusCode = 0 THEN 500
                         ELSE call.lastError.statusCode)

\* A call that failed three times on server errors without any timer firing:
\* it waited delayMs and 2 * delayMs and nothing after the third failure.
C33_Witness ==
    /\ call.pc = "done"
    /\ call.name = "verify_order"
    /\ call.attempt = maxRetries
    /\ call.failures = maxRetries + 1
    /\ call.timeouts = 0
    /\ call.elapsed = 3 * delayMs

\* C34: every statement a tool sends to the backend passes the read-only
\* guard (it starts with SELECT and holds none of the dangerous key words),
\* the statement get_database_schema builds from its schema argument
\* included.
C34_EverySentStatementIsFiltered ==
    sql.stage = "sent" => readOnlyGuard(upperCased(trimQuery(sql.statement))) = ""

IsPrefix(a, b) == Len(a) <= Len(b) /\ a = SubSeq(b, 1, Len(a))

\* C35: the sequence a replay yields is fixed at the call of
\* replayEventsAfter: whatever is appended to the session while the replay
\* is consumed, what it has yielded is a prefix of the events the call
\* selected, and a finished replay has yielded exactly those events.
C35_ReplayFixedAtCall ==
    /\ replay.op \in {"iterate", "iterated"} => IsPrefix(replay.yielded, replay.out)
    /\ replay.op = "iterated" => replay.yielded = replay.out

\* A step is an operation of the event log on session a: the storeEvent of
\* the event that the step appended, the read whose arguments the step
\* recorded, or clearSession.
OperationOn(a) ==
    \/ /\ Len(appended'[a]) = Len(appended[a]) + 1
       /\ LET stored == appended'[a][Len(appended'[a])]
          IN  StoreEvent(a, stored.id, stored.data)
    \/ /\ replay'.sid = a
       /\ GetEventsSince(a, replay'.last) \/ ReplayEventsAfter(a, replay'.last)
    \/ ClearSession(a)

\* C36: the sessions of the event log are isolated: storeEvent,
\* getEventsSince, replayEventsAfter and clearSession on a session leave the
\* retained events of every other session as they were.
C36_SessionsIsolated ==
    [][\A a \in SessionIds :
          OperationOn(a) => \A b \in SessionIds \ {a} : Retained(b)' = Retained(b)]_vars

\* Session 1 has evicted its oldest event and session 2 still retains the one
\* event appended to it.
C36_Witness ==
    /\ Len(appended[1]) > maxEventsPerSession
    /\ Len(Retained(1)) = maxEventsPerSession
    /\ Len(appended[2]) = 1
    /\ Retained(2) = appended[2]

\* C37: in every reachable state each key of the session registry is the
\* sessionId of the transport it maps to, that transport has not been
\* closed, and no transport is registered under two keys.
C37_RegistryConsistent ==
    \A s \in DOMAIN transports :
        /\ tr[transports[s]].sessionId = s
        /\ tr[transports[s]].state = "initialized"
        /\ \A other \in DOMAIN transports : transports[other] = transports[s] => other = s

\* One session is registered and another one was closed and is gone from the
\* registry.
C37_Witness ==
    /\ Cardinality(DOMAIN transports) = 1
    /\ \E t \in DOMAIN tr :
          /\ tr[t].state = "closed"
          /\ Truthy(tr[t].sessionId)
          /\ tr[t].sessionId \notin DOMAIN transports

\* C38: when the handling of an initialize POST ends with the answer 500,
\* no entry for the session under creation remains registered: the
\* transport the request created is not in the registry.
C38_FailedInitializeLeavesNoEntry ==
    \A rid \in 1 .. Len(reqs) :
        ( /\ reqs[rid].method = "POST"
          /\ isInitializeRequest(reqs[rid].body)
          /\ reqs[rid].tid = rid
          /\ reqs[rid].status = 500 )
        => \A s \in DOMAIN transports : transports[s] # rid

\* C39: after SIGINT or SIGTERM the server attempts close() on every
\* registered transport and removes the ones it closed, so that at the exit
\* every entry left in the registry is a transport whose close() failed and
\* no closed transport is registered; the exit is process.exit(0), also
\* when a close failed, and shutdown always reaches it.
C39_ShutdownClosesAllAndExits ==
    /\ [](phase = "exited" =>
            /\ \A s \in DOMAIN transports : tr[transports[s]].state = "closeFailed"
            /\ \A t \in DOMAIN tr :
                  tr[t].state = "closed" => \A s \in DOMAIN transports : transports[s] # t)
    /\ (phase = "shutting") ~> (phase = "exited")

\* The server has exited with two sessions attempted: one was closed and
\* removed, the close of the other failed and its entry is still registered.
C39_Witness ==
    /\ phase = "exited"
    /\ \E s \in DOMAIN transports : tr[transports[s]].state = "closeFailed"
    /\ \E t \in DOMAIN tr :
          /\ tr[t].state = "closed"
          /\ Truthy(tr[t].sessionId)
          /\ tr[t].sessionId \notin DOMAIN transports
====
